---- MODULE Spec2Model ----
(***************************************************************************)
(* Model of the document lifecycle engine: the Google Sheets document      *)
(* repository (google_sheets.py), the document model (document.py) and the *)
(* document service (document_service.py).                                 *)
(*                                                                         *)
(* The live worksheet is a sequence of rows of text cells; row 1 is the    *)
(* header row.  Every worksheet API call (find, row_values, append_row,    *)
(* update, delete_rows, get_all_records) is one atomic step of a caller;   *)
(* the Python code between two API calls is local and belongs to the step  *)
(* that precedes it.  Every API call may fail (the store is a network      *)
(* service), which the repository reports as DatabaseConnectionError.      *)
(*                                                                         *)
(* Text is modelled by TLA+ strings.  The Chinese literals of constants.py *)
(* are transliterated, because the module is ASCII: "JZX" stands for the   *)
(* general prefix, "JZH" for the reply prefix, and the document types are  *)
(* written by their enum names.                                            *)
(***************************************************************************)
EXTENDS Integers, Sequences, FiniteSets, TLC

VARIABLES sheet, archive, pc, op, arg, loc, ret, pre

vars == <<sheet, archive, pc, op, arg, loc, ret, pre>>

-----------------------------------------------------------------------------
(* Bounds of the model. *)

\* Greatest number of data rows of the live worksheet (the header excluded).
MaxRows == 2

\* Greatest number of rows of the archive worksheet.
MaxArchive == 2

\* Greatest number of data rows of the stores the reading operations are
\* applied to.
MaxDocs == 3

-----------------------------------------------------------------------------
(* constants.py *)

FN_ID == "ID"
FN_DATE == "Date"
FN_TYPE == "Type"
FN_AGENCY == "Agency"
FN_SUBJECT == "Subject"
FN_PARENT_ID == "Parent_ID"
FN_DRIVE_FILE_ID == "Drive_File_ID"
FN_CREATED_AT == "Created_At"
FN_CREATED_BY == "Created_By"
FN_OCR_STATUS == "OCR_Status"
FN_OCR_TEXT == "OCR_Text"
FN_OCR_DATE == "OCR_Date"
FN_DELETED_AT == "Deleted_At"
FN_DELETED_BY == "Deleted_By"

DocumentType == {"OUTGOING", "INCOMING", "MEMO", "LETTER"}

OCRStatus == {"pending", "completed", "failed", "skipped"}

ID_PREFIX_GENERAL == "JZX"

ID_PREFIX_REPLY == "JZH"

\* The header row the document worksheet is set up with: the columns that
\* Document.to_sheet_row writes and Document.from_sheet_row reads.
DocHeaders ==
    << FN_ID, FN_DATE, FN_TYPE, FN_AGENCY, FN_SUBJECT, FN_PARENT_ID,
       FN_DRIVE_FILE_ID, FN_CREATED_AT, FN_CREATED_BY, FN_OCR_STATUS,
       FN_OCR_TEXT, FN_OCR_DATE >>

\* The header row of the archive worksheet: the document columns and the
\* two deletion columns move_to_deleted fills.
ArchiveHeaders == DocHeaders \o << FN_DELETED_AT, FN_DELETED_BY >>

-----------------------------------------------------------------------------
(* Python values *)

\* Python's None where a string is expected.
NONE == "<None>"

\* A datetime: the day of the month (of January 2024) and the time of day in
\* seconds.  NoDateTime stands for None where a datetime is expected.
DateTime(d, t) == [day |-> d, tod |-> t]

NoDateTime == [day |-> 0, tod |-> 0]

\* Python truthiness of an Optional[str].
Truthy(s) == s # NONE /\ s # ""

\* x or y, on Optional[str].
OrElse(x, y) == IF Truthy(x) THEN x ELSE y

Digit(n) == SubSeq("0123456789", n + 1, n + 1)

RECURSIVE ToStr(_)
\* str(n) of a natural number.
ToStr(n) == IF n < 10 THEN Digit(n) ELSE ToStr(n \div 10) \o Digit(n % 10)

RECURSIVE ZeroPad(_, _)
\* The format specs 02d and 03d: zero-padded to a least width w.
ZeroPad(s, w) == IF Len(s) >= w THEN s ELSE ZeroPad("0" \o s, w)

\* str.startswith
StartsWith(s, p) == Len(s) >= Len(p) /\ SubSeq(s, 1, Len(p)) = p

\* p in s, on str.
StrIn(p, s) ==
    p = "" \/ \E k \in 1..(Len(s) - Len(p) + 1) : SubSeq(s, k, k + Len(p) - 1) = p

\* The days a date text can name.
Days == 1..31

\* date.strftime('%Y-%m-%d'): the time of day is dropped.
StrfDate(dt) == "2024-01-" \o ZeroPad(ToStr(dt.day), 2)

\* date.strftime('%Y%m%d')
StrfYmd(dt) == "202401" \o ZeroPad(ToStr(dt.day), 2)

\* datetime.strptime(s, '%Y-%m-%d') succeeds
IsDateText(s) == \E d \in Days : StrfDate(DateTime(d, 0)) = s

\* datetime.strptime(s, '%Y-%m-%d'), for a text it accepts: midnight of the day.
StrpDate(s) == DateTime(CHOOSE d \in Days : StrfDate(DateTime(d, 0)) = s, 0)

\* The times of day an ISO text can name in the model.
Tods == 0..2

\* datetime.isoformat()
IsoFormat(dt) == StrfDate(dt) \o "T00:00:0" \o Digit(dt.tod)

IsIsoText(s) == \E d \in Days, t \in Tods : IsoFormat(DateTime(d, t)) = s

\* Document._parse_datetime: None for an empty or unparseable text.
ParseDatetime(s) ==
    IF ~Truthy(s) THEN NoDateTime
    ELSE IF IsIsoText(s)
         THEN CHOOSE dt \in {DateTime(d, t) : d \in Days, t \in Tods} : IsoFormat(dt) = s
         ELSE NoDateTime

-----------------------------------------------------------------------------
(* document.py *)

\* The Document dataclass.
Document(id, date, type, agency, subject, parent_id, drive_file_id, created_at, created_by, ocr_status, ocr_text, ocr_date) ==
    [ id |-> id, date |-> date, type |-> type, agency |-> agency,
      subject |-> subject, parent_id |-> parent_id,
      drive_file_id |-> drive_file_id, created_at |-> created_at,
      created_by |-> created_by, ocr_status |-> ocr_status,
      ocr_text |-> ocr_text, ocr_date |-> ocr_date ]

\* Stands for "no document" (None where a Document is expected).
NoDoc ==
    Document(NONE, NoDateTime, NONE, NONE, NONE, NONE, NONE, NoDateTime,
             NONE, NONE, NONE, NoDateTime)

\* dict.get(key) and dict.get(key, default) of a row dict.
DictGet(row, key, default) == IF key \in DOMAIN row THEN row[key] ELSE default

\* Document.from_sheet_row raises ValueError: a required column is missing
\* (KeyError), or the date, the type or the OCR status does not parse.
RowParses(row) ==
    /\ {FN_ID, FN_DATE, FN_TYPE, FN_AGENCY, FN_SUBJECT} \subseteq DOMAIN row
    /\ IsDateText(row[FN_DATE])
    /\ row[FN_TYPE] \in DocumentType
    /\ DictGet(row, FN_OCR_STATUS, "pending") \in OCRStatus

\* Document.from_sheet_row, for a row it accepts.
FromSheetRow(row) ==
    Document(row[FN_ID],
             StrpDate(row[FN_DATE]),
             row[FN_TYPE],
             row[FN_AGENCY],
             row[FN_SUBJECT],
             OrElse(DictGet(row, FN_PARENT_ID, NONE), NONE),
             OrElse(DictGet(row, FN_DRIVE_FILE_ID, NONE), NONE),
             ParseDatetime(DictGet(row, FN_CREATED_AT, NONE)),
             DictGet(row, FN_CREATED_BY, NONE),
             DictGet(row, FN_OCR_STATUS, "pending"),
             DictGet(row, FN_OCR_TEXT, NONE),
             ParseDatetime(DictGet(row, FN_OCR_DATE, NONE)))

\* Document.to_sheet_row: the row dict of a document.
ToSheetRow(doc) ==
    [ h \in {DocHeaders[i] : i \in 1..Len(DocHeaders)} |->
        CASE h = FN_ID -> doc.id
          [] h = FN_DATE -> StrfDate(doc.date)
          [] h = FN_TYPE -> doc.type
          [] h = FN_AGENCY -> doc.agency
          [] h = FN_SUBJECT -> doc.subject
          [] h = FN_PARENT_ID -> OrElse(doc.parent_id, "")
          [] h = FN_DRIVE_FILE_ID -> OrElse(doc.drive_file_id, "")
          [] h = FN_CREATED_AT ->
                IF doc.created_at # NoDateTime THEN IsoFormat(doc.created_at) ELSE ""
          [] h = FN_CREATED_BY -> OrElse(doc.created_by, "")
          [] h = FN_OCR_STATUS -> doc.ocr_status
          [] h = FN_OCR_TEXT -> OrElse(doc.ocr_text, "")
          [] OTHER ->
                IF doc.ocr_date # NoDateTime THEN IsoFormat(doc.ocr_date) ELSE "" ]

-----------------------------------------------------------------------------
(* The worksheet (gspread), as the repository uses it *)

RECURSIVE Trim(_)
\* A row as the API returns it: without its trailing empty cells.
Trim(cells) ==
    IF cells # <<>> /\ cells[Len(cells)] = ""
    THEN Trim(SubSeq(cells, 1, Len(cells) - 1))
    ELSE cells

\* A row as the worksheet stores it: w cells, empty ones at the end.
Pad(cells, w) == [i \in 1..w |-> IF i <= Len(cells) THEN cells[i] ELSE ""]

\* Mutant of Find: the last row of the worksheet is not searched.
FindSkippingLastRow(sh, query) ==
    LET hits == {r \in 1..(Len(sh) - 1) : \E k \in 1..Len(sh[r]) : sh[r][k] = query}
    IN  IF hits = {} THEN 0 ELSE CHOOSE r \in hits : \A q \in hits : r <= q

\* worksheet.find(query): the row of the first cell, rows first, whose value
\* equals the query, whatever its column and the header row included; 0
\* stands for None (no such cell).
Find(sh, query) ==
    LET hits == {r \in 1..Len(sh) : \E k \in 1..Len(sh[r]) : sh[r][k] = query}
    IN  IF hits = {} THEN 0 ELSE CHOOSE r \in hits : \A q \in hits : r <= q

\* worksheet.row_values(r): empty for a row below the data.
RowValues(sh, r) == IF r \in 1..Len(sh) THEN Trim(sh[r]) ELSE <<>>

\* dict(zip(headers, row_data)): zip stops at the shorter list, and a later
\* duplicate key overwrites an earlier one.
ZipDict(headers, cells) ==
    LET n == IF Len(headers) < Len(cells) THEN Len(headers) ELSE Len(cells)
    IN  [ h \in {headers[i] : i \in 1..n} |->
            cells[CHOOSE i \in 1..n :
                    headers[i] = h /\ \A j \in 1..n : headers[j] = h => j <= i] ]

\* [row_data.get(header, '') for header in headers]
ValuesFor(rowdict, headers) ==
    [i \in 1..Len(headers) |-> DictGet(rowdict, headers[i], "")]

\* worksheet.append_row(values): the row is written below the last row that
\* holds data; a row of empty cells leaves the worksheet as it was.
AppendRow(sh, values, w) ==
    IF Trim(values) = <<>> THEN sh ELSE Append(sh, Pad(values, w))

\* worksheet.update('A{r}:{col}{r}', [values]): the first Len(values) cells
\* of row r are overwritten (r is a row that find returned; rows in between
\* are empty when the worksheet has shrunk since).
UpdateRange(sh, r, values, w) ==
    LET grown == [i \in 1..(IF r > Len(sh) THEN r ELSE Len(sh)) |->
                    IF i <= Len(sh) THEN sh[i] ELSE Pad(<<>>, w)]
    IN  [grown EXCEPT ![r] =
            [k \in 1..w |-> IF k <= Len(values) THEN values[k] ELSE grown[r][k]]]

\* worksheet.delete_rows(r): the rows below move up by one.
DeleteRows(sh, r) ==
    IF r \in 1..Len(sh)
    THEN [i \in 1..(Len(sh) - 1) |-> IF i < r THEN sh[i] ELSE sh[i + 1]]
    ELSE sh

\* worksheet.get_all_records(): one dict per row below the header row, keyed
\* by the header row's cells (a later column wins over an earlier one of the
\* same name, where the library does not raise).
GetAllRecords(sh) ==
    [i \in 1..(Len(sh) - 1) |-> ZipDict(sh[1], sh[i + 1])]

-----------------------------------------------------------------------------
(* google_sheets.py: what the repository computes between two API calls *)

\* DocumentRepository.get_all, given the records read: the documents of the
\* rows that parse, in row order.
GetAll(sh) ==
    LET parsed == SelectSeq(GetAllRecords(sh), RowParses)
    IN  [i \in 1..Len(parsed) |-> FromSheetRow(parsed[i])]

\* int(value) succeeds: get_all_records turns the text of such a cell into a
\* number (in the model, the texts made of digits).
Numericised(s) ==
    s # "" /\ \A k \in 1..Len(s) : \E n \in 0..9 : SubSeq(s, k, k) = Digit(n)

\* Document.from_sheet_row raises TypeError, which its except clause does
\* not catch: strptime or fromisoformat is handed a number.  The arguments
\* of cls(...) are evaluated in order, so an earlier KeyError or ValueError
\* comes first.
RowRaisesTypeError(row) ==
    \/ /\ {FN_ID, FN_DATE} \subseteq DOMAIN row
       /\ Numericised(row[FN_DATE])
    \/ /\ {FN_ID, FN_DATE, FN_TYPE, FN_AGENCY, FN_SUBJECT} \subseteq DOMAIN row
       /\ IsDateText(row[FN_DATE])
       /\ row[FN_TYPE] \in DocumentType
       /\ Numericised(DictGet(row, FN_CREATED_AT, ""))
    \/ /\ RowParses(row)
       /\ Numericised(DictGet(row, FN_OCR_DATE, ""))

\* DocumentRepository.get_all ends in its outer except clause: a row raised
\* an exception that is no ValueError.
GetAllAborts(sh) ==
    \E i \in 1..Len(GetAllRecords(sh)) : RowRaisesTypeError(GetAllRecords(sh)[i])

\* get_all raises DatabaseConnectionError: get_all_records failed (the
\* store), or a row raised inside the loop.
GetAllRaises(ok, sh) == ~ok \/ GetAllAborts(sh)

\* What the message of that error carries: the store's error or the row's.
GetAllAt(ok) == IF ~ok THEN "get_all" ELSE "from_sheet_row"

\* DocumentRepository.get_by_id, given the row and the header row read: the
\* document of the row, None (NoDoc) when the row does not parse.
GetByIdResult(headers, cells) ==
    LET row_dict == ZipDict(headers, cells)
    IN  IF RowParses(row_dict) THEN FromSheetRow(row_dict) ELSE NoDoc

\* The row move_to_deleted writes: the document's row with the two deletion
\* columns filled.
DeletedRowDict(doc, now, deleted_by) ==
    [ h \in {ArchiveHeaders[i] : i \in 1..Len(ArchiveHeaders)} |->
        IF h = FN_DELETED_AT THEN IsoFormat(now)
        ELSE IF h = FN_DELETED_BY THEN deleted_by
        ELSE ToSheetRow(doc)[h] ]

-----------------------------------------------------------------------------
(* document_service.py: pure parts *)

\* Mutant of GenerateDocumentId: a root id counts the documents of every
\* date.
GenerateDocumentIdAnyDate(date, is_reply, parent_id, all_docs) ==
    IF is_reply
    THEN LET reply_docs ==
                SelectSeq(all_docs,
                          LAMBDA d : d.parent_id = parent_id
                                     /\ StartsWith(d.id, ID_PREFIX_REPLY))
         IN  ID_PREFIX_REPLY \o ZeroPad(ToStr(Len(reply_docs) + 1), 2) \o parent_id
    ELSE LET same_day_docs ==
                SelectSeq(all_docs, LAMBDA d : StartsWith(d.id, ID_PREFIX_GENERAL))
         IN  ID_PREFIX_GENERAL \o StrfYmd(date)
                \o ZeroPad(ToStr(Len(same_day_docs) + 1), 3)

\* Mutant of GenerateDocumentId: a reply id counts every document whose
\* parent is the parent, whatever its id.
GenerateDocumentIdAnyReply(date, is_reply, parent_id, all_docs) ==
    IF is_reply
    THEN LET reply_docs ==
                SelectSeq(all_docs, LAMBDA d : d.parent_id = parent_id)
         IN  ID_PREFIX_REPLY \o ZeroPad(ToStr(Len(reply_docs) + 1), 2) \o parent_id
    ELSE LET same_day_docs ==
                SelectSeq(all_docs,
                          LAMBDA d : StrfYmd(d.date) = StrfYmd(date)
                                     /\ StartsWith(d.id, ID_PREFIX_GENERAL))
         IN  ID_PREFIX_GENERAL \o StrfYmd(date)
                \o ZeroPad(ToStr(Len(same_day_docs) + 1), 3)

\* DocumentService.generate_document_id, given the documents get_all
\* returned (parent_id is truthy when is_reply holds).
GenerateDocumentId(date, is_reply, parent_id, all_docs) ==
    IF is_reply
    THEN LET reply_docs ==
                SelectSeq(all_docs,
                          LAMBDA d : d.parent_id = parent_id
                                     /\ StartsWith(d.id, ID_PREFIX_REPLY))
         IN  ID_PREFIX_REPLY \o ZeroPad(ToStr(Len(reply_docs) + 1), 2) \o parent_id
    ELSE LET same_day_docs ==
                SelectSeq(all_docs,
                          LAMBDA d : StrfYmd(d.date) = StrfYmd(date)
                                     /\ StartsWith(d.id, ID_PREFIX_GENERAL))
         IN  ID_PREFIX_GENERAL \o StrfYmd(date)
                \o ZeroPad(ToStr(Len(same_day_docs) + 1), 3)

\* The Document create_document builds once the id is known.
NewDocument(doc_id, a, now) ==
    Document(doc_id, a.doc.date, a.doc.type, a.doc.agency, a.doc.subject,
             a.doc.parent_id, a.doc.drive_file_id, now, a.by, "pending",
             NONE, NoDateTime)

RECURSIVE Concat(_)
\* result.extend(...) over a list of lists, in order.
Concat(lists) ==
    IF lists = <<>> THEN <<>>
    ELSE Concat(SubSeq(lists, 1, Len(lists) - 1)) \o lists[Len(lists)]

\* doc_dict = {doc.id: doc for doc in all_docs}: of two documents with one
\* id the later one stays.
DocDict(all_docs, doc_id) ==
    all_docs[CHOOSE i \in 1..Len(all_docs) :
                /\ all_docs[i].id = doc_id
                /\ \A j \in 1..Len(all_docs) : all_docs[j].id = doc_id => j <= i]

RECURSIVE build_thread_children_last(_, _, _, _)
\* Mutant of build_thread_recursive: the replies to a document are visited
\* from the last scanned to the first.
build_thread_children_last(all_docs, doc_id, level, path) ==
    IF doc_id \in path
    THEN [raised |-> TRUE, thread |-> <<>>]
    ELSE IF ~(\E i \in 1..Len(all_docs) : all_docs[i].id = doc_id)
    THEN [raised |-> FALSE, thread |-> <<>>]
    ELSE LET children == SelectSeq(all_docs, LAMBDA d : d.parent_id = doc_id)
             n == Len(children)
             sub == [k \in 1..n |->
                        build_thread_children_last(all_docs, children[n + 1 - k].id,
                                                   level + 1, path \cup {doc_id})]
         IN  [raised |-> \E k \in 1..n : sub[k].raised,
              thread |-> << [doc |-> DocDict(all_docs, doc_id), level |-> level] >>
                            \o Concat([k \in 1..n |-> sub[k].thread])]

RECURSIVE build_thread_recursive(_, _, _, _)
\* build_thread_recursive(doc_id, level) inside get_conversation_thread.
\* path holds the ids of the calls that are on the stack: a call for an id
\* that is on the stack repeats its caller's computation, so the recursion
\* never returns and the interpreter ends it with RecursionError (raised).
build_thread_recursive(all_docs, doc_id, level, path) ==
    IF doc_id \in path
    THEN [raised |-> TRUE, thread |-> <<>>]
    ELSE IF ~(\E i \in 1..Len(all_docs) : all_docs[i].id = doc_id)
    THEN [raised |-> FALSE, thread |-> <<>>]
    ELSE LET children == SelectSeq(all_docs, LAMBDA d : d.parent_id = doc_id)
             sub == [k \in 1..Len(children) |->
                        build_thread_recursive(all_docs, children[k].id, level + 1,
                                               path \cup {doc_id})]
         IN  [raised |-> \E k \in 1..Len(children) : sub[k].raised,
              thread |-> << [doc |-> DocDict(all_docs, doc_id), level |-> level] >>
                            \o Concat([k \in 1..Len(children) |-> sub[k].thread])]

\* DocumentService.get_conversation_thread, given the documents get_all
\* returned.
GetConversationThread(all_docs, root_id) ==
    build_thread_recursive(all_docs, root_id, 0, {})

\* DocumentService.get_root_documents, given the documents get_all returned.
GetRootDocuments(all_docs) ==
    SelectSeq(all_docs, LAMBDA d : ~Truthy(d.parent_id))

\* The order of datetimes.
DateTimeLeq(x, y) == x.day < y.day \/ (x.day = y.day /\ x.tod <= y.tod)

\* Mutant of SearchDocuments: a document is kept when it matches one of
\* the predicates supplied.
SearchDocumentsAnyOf(a, all_docs) ==
    SelectSeq(all_docs,
              LAMBDA d :
                \/ (~Truthy(a.keyword) /\ a.date_start = NoDateTime
                      /\ a.date_end = NoDateTime /\ a.type = NONE /\ ~Truthy(a.agency))
                \/ (Truthy(a.keyword) /\ StrIn(a.keyword, d.subject))
                \/ (a.date_start # NoDateTime /\ DateTimeLeq(a.date_start, d.date))
                \/ (a.date_end # NoDateTime /\ DateTimeLeq(d.date, a.date_end))
                \/ (a.type # NONE /\ d.type = a.type)
                \/ (Truthy(a.agency) /\ StrIn(a.agency, d.agency)))

\* DocumentService.search_documents, given the documents get_all returned:
\* one filter after the other, each only when its argument is truthy.
SearchDocuments(a, all_docs) ==
    LET by_keyword == IF Truthy(a.keyword)
                      THEN SelectSeq(all_docs, LAMBDA d : StrIn(a.keyword, d.subject))
                      ELSE all_docs
        by_start == IF a.date_start # NoDateTime
                    THEN SelectSeq(by_keyword, LAMBDA d : DateTimeLeq(a.date_start, d.date))
                    ELSE by_keyword
        by_end == IF a.date_end # NoDateTime
                  THEN SelectSeq(by_start, LAMBDA d : DateTimeLeq(d.date, a.date_end))
                  ELSE by_start
        by_type == IF a.type # NONE
                   THEN SelectSeq(by_end, LAMBDA d : d.type = a.type)
                   ELSE by_end
    IN  IF Truthy(a.agency)
        THEN SelectSeq(by_type, LAMBDA d : StrIn(a.agency, d.agency))
        ELSE by_type

-----------------------------------------------------------------------------
(* tracking_service.py: pure parts *)

TRACKING_THRESHOLD_DAYS == 7

\* Mutant of Trackable: every type but MEMO is tracked.
TrackableButMemo(doc_type) == doc_type # "MEMO"

\* doc_type in [DocumentType.OUTGOING, DocumentType.LETTER]
Trackable(doc_type) == doc_type \in {"OUTGOING", "LETTER"}

\* (now - doc_date).days: the whole days of the difference, rounded down.
DaysWaiting(now, doc_date) ==
    ((now.day - doc_date.day) * 86400 + (now.tod - doc_date.tod)) \div 86400

\* Mutant of LatestReplyDate: the date of the last reply in scan order.
LastReplyDate(replies) ==
    IF replies = <<>> THEN NoDateTime ELSE replies[Len(replies)].date

\* max(reply.date for reply in replies), None when there is no reply.
LatestReplyDate(replies) ==
    IF replies = <<>> THEN NoDateTime
    ELSE CHOOSE dt \in {replies[i].date : i \in 1..Len(replies)} :
            \A i \in 1..Len(replies) : DateTimeLeq(replies[i].date, dt)

\* Mutant of NeedTracking: the threshold day itself needs tracking.
NeedTrackingFromThreshold(reply_count, days_waiting) ==
    reply_count = 0 /\ days_waiting >= TRACKING_THRESHOLD_DAYS

\* need_tracking = len(replies) == 0 and days_waiting > TRACKING_THRESHOLD_DAYS
NeedTracking(reply_count, days_waiting) ==
    reply_count = 0 /\ days_waiting > TRACKING_THRESHOLD_DAYS

\* The TrackingStatus dataclass.
TrackingStatus(has_reply, days_waiting, need_tracking, reply_count, latest_reply_date) ==
    [ has_reply |-> has_reply, days_waiting |-> days_waiting,
      need_tracking |-> need_tracking, reply_count |-> reply_count,
      latest_reply_date |-> latest_reply_date ]

\* The status check_reply_status returns for a type that is not tracked.
NeutralStatus == TrackingStatus(FALSE, 0, FALSE, 0, NoDateTime)

\* TrackingService.check_reply_status for a tracked type, given the
\* documents get_all returned and the clock reading.
CheckReplyStatus(doc_id, doc_date, all_docs, now) ==
    LET replies == SelectSeq(all_docs, LAMBDA d : d.parent_id = doc_id)
        days_waiting == DaysWaiting(now, doc_date)
    IN  TrackingStatus(Len(replies) > 0,
                       days_waiting,
                       NeedTracking(Len(replies), days_waiting),
                       Len(replies),
                       LatestReplyDate(replies))

\* Mutant of InsertByDaysWaiting: an entry goes before the entries that have
\* waited as long as it has.
InsertBeforeEqual(sorted, x) ==
    LET n == Cardinality({i \in 1..Len(sorted) :
                            sorted[i].status.days_waiting > x.status.days_waiting})
    IN  SubSeq(sorted, 1, n) \o <<x>> \o SubSeq(sorted, n + 1, Len(sorted))

\* One entry put into a list sorted by days_waiting, longest first: it goes
\* after the entries that have waited as long as it or longer.
InsertByDaysWaiting(sorted, x) ==
    LET n == Cardinality({i \in 1..Len(sorted) :
                            sorted[i].status.days_waiting >= x.status.days_waiting})
    IN  SubSeq(sorted, 1, n) \o <<x>> \o SubSeq(sorted, n + 1, Len(sorted))

RECURSIVE SortByDaysWaiting(_)
\* list.sort(key=lambda x: x[1].days_waiting, reverse=True): the sort is
\* stable, entries with equal keys keep their order.
SortByDaysWaiting(list) ==
    IF list = <<>> THEN <<>>
    ELSE InsertByDaysWaiting(SortByDaysWaiting(SubSeq(list, 1, Len(list) - 1)),
                             list[Len(list)])

\* outgoing_docs of get_pending_replies.
OutgoingDocs(all_docs) == SelectSeq(all_docs, LAMBDA d : Trackable(d.type))

-----------------------------------------------------------------------------
(* The callers and the inputs they draw *)

Callers == {"c1", "c2"}

\* The clock readings datetime.now() returns.
Nows == {DateTime(5, 1)}

InDate == DateTime(1, 0)

InUsers == {"alice"}

MainId == "M1"

\* A manual id that equals a header cell of the worksheet.
HeaderId == FN_ID

FirstRootId == GenerateDocumentId(InDate, FALSE, NONE, <<>>)

\* What the form of create_document holds besides the ids: the subject
\* "abc" is shorter than the five characters create_document asks for.
FormDoc(subject, parent_id) ==
    Document(NONE, InDate, "OUTGOING", "MOE", subject, parent_id, NONE,
             NoDateTime, NONE, "pending", NONE, NoDateTime)

\* A document as a caller holds it who read it earlier and edited it.
HeldDoc(id, parent_id) ==
    Document(id, InDate, "OUTGOING", "MOE", "Budget plan", parent_id, NONE,
             DateTime(5, 1), "alice", "pending", NONE, NoDateTime)

\* The clock readings datetime.now() returns to the tracking service.
TrackNows == {DateTime(9, 1), DateTime(10, 1)}

ReplyId == GenerateDocumentId(InDate, TRUE, MainId, <<>>)

NestedReplyId == GenerateDocumentId(InDate, TRUE, ReplyId, <<>>)

\* A document as a stored row holds it.
PoolDoc(id, day, type, parent_id) ==
    Document(id, DateTime(day, 0), type, "MOE", "Budget plan", parent_id, NONE,
             DateTime(5, 1), "alice", "pending", NONE, NoDateTime)

\* The id allocated to the second root document of the first day.
SecondRootId ==
    GenerateDocumentId(InDate, FALSE, NONE, << PoolDoc(FirstRootId, 1, "OUTGOING", NONE) >>)

\* The documents the stores of the reading operations are made of: two
\* roots with ids allocated for the first day (the date of the second
\* edited since to the second day), a root with a manual id and a second
\* document of that id whose parent is its own reply, a reply, a reply to
\* the reply, a reply with a manual id.
Pool ==
    << PoolDoc(FirstRootId, 1, "OUTGOING", NONE),
       PoolDoc(SecondRootId, 2, "LETTER", NONE),
       PoolDoc(MainId, 2, "OUTGOING", NONE),
       PoolDoc(MainId, 2, "INCOMING", ReplyId),
       PoolDoc(ReplyId, 3, "INCOMING", MainId),
       PoolDoc(NestedReplyId, 2, "OUTGOING", ReplyId),
       PoolDoc("R1", 1, "OUTGOING", MainId) >>

\* A document as a stored row holds it, for the search.
SearchDoc(id, day, type, agency, subject) ==
    Document(id, DateTime(day, 0), type, agency, subject, NONE, NONE,
             DateTime(5, 1), "alice", "pending", NONE, NoDateTime)

\* The documents the stores of the search are made of.
SearchPool ==
    << SearchDoc("D1", 1, "OUTGOING", "MOE", "Tax report"),
       SearchDoc("D2", 2, "INCOMING", "MOF", "Tax audit"),
       SearchDoc("D3", 3, "OUTGOING", "MOE", "Budget plan"),
       SearchDoc("D4", 2, "OUTGOING", "MOF", "Tax rebate") >>

-----------------------------------------------------------------------------
(* State *)

\* The locals of a caller between two API calls: who called get_by_id
\* (ctx), the text looked for (q), the row find returned (cell, 0 for None),
\* the row read (row), the document being written or resolved (doc).
Loc0 == [ctx |-> "", q |-> "", cell |-> 0, row |-> <<>>, doc |-> NoDoc]

\* The number of columns of the worksheets' grid that the model keeps.
SheetWidth == Len(DocHeaders)

ArchiveWidth == Len(ArchiveHeaders)

Arg0 == [id |-> NONE, doc |-> NoDoc, by |-> NONE]

\* The outcome of a call: "ok" or the class of the exception raised, the
\* method whose message the exception carries (at), the document returned
\* (doc), the value returned by an operation that returns no document (val).
Ret0 == [status |-> "", at |-> "", doc |-> NoDoc, val |-> <<>>]

Pre0 == [sheet |-> <<>>, archive |-> <<>>]

Init ==
    /\ sheet = << DocHeaders >>
    /\ archive = <<>>
    /\ pc = [c \in Callers |-> "idle"]
    /\ op = [c \in Callers |-> ""]
    /\ arg = [c \in Callers |-> Arg0]
    /\ loc = [c \in Callers |-> Loc0]
    /\ ret = [c \in Callers |-> Ret0]
    /\ pre = [c \in Callers |-> Pre0]

\* The data rows of the live worksheet and the creates in flight fit.
Creating(c) == pc[c] # "idle" /\ pc[c] # "done" /\ op[c] \in {"create", "create_document"}

RoomToCreate ==
    Len(sheet) - 1 + Cardinality({c \in Callers : Creating(c)}) < MaxRows

Archiving(c) == pc[c] # "idle" /\ pc[c] # "done" /\ op[c] = "soft_delete"

RoomToArchive ==
    Len(archive) + Cardinality({c \in Callers : Archiving(c)}) < MaxArchive

\* A call begins: the caller's arguments and the stores as they are now.
Begin(c, name, a, label, l) ==
    /\ pc[c] = "idle"
    /\ pc' = [pc EXCEPT ![c] = label]
    /\ op' = [op EXCEPT ![c] = name]
    /\ arg' = [arg EXCEPT ![c] = a]
    /\ loc' = [loc EXCEPT ![c] = l]
    /\ ret' = [ret EXCEPT ![c] = Ret0]
    /\ pre' = [pre EXCEPT ![c] = [sheet |-> sheet, archive |-> archive]]
    /\ UNCHANGED <<sheet, archive>>

\* A call raises before its first API call.
BeginRaise(c, name, a, kind, at) ==
    /\ pc[c] = "idle"
    /\ pc' = [pc EXCEPT ![c] = "done"]
    /\ op' = [op EXCEPT ![c] = name]
    /\ arg' = [arg EXCEPT ![c] = a]
    /\ ret' = [ret EXCEPT ![c] = [status |-> kind, at |-> at, doc |-> NoDoc, val |-> <<>>]]
    /\ pre' = [pre EXCEPT ![c] = [sheet |-> sheet, archive |-> archive]]
    /\ UNCHANGED <<sheet, archive, loc>>

\* A call ends with an exception of the given kind.
Raise(c, kind, at) ==
    /\ pc' = [pc EXCEPT ![c] = "done"]
    /\ loc' = [loc EXCEPT ![c] = Loc0]
    /\ ret' = [ret EXCEPT ![c] = [status |-> kind, at |-> at, doc |-> NoDoc, val |-> <<>>]]

\* History kept for the properties: the states of the worksheet that a call
\* of get_pending_replies in progress has lived through.
Seen(l, sh) == IF "seen" \in DOMAIN l THEN [l EXCEPT !.seen = @ \cup {sh}] ELSE l

\* A call ends with a result; the calls that write end here, with the
\* worksheet as the write left it.
Finish(c, doc) ==
    /\ pc' = [pc EXCEPT ![c] = "done"]
    /\ loc' = [d \in Callers |-> IF d = c THEN Loc0 ELSE Seen(loc[d], sheet')]
    /\ ret' = [ret EXCEPT ![c] = [status |-> "ok", at |-> "", doc |-> doc, val |-> <<>>]]

\* A call ends with a result that is no document.
FinishVal(c, val) ==
    /\ pc' = [pc EXCEPT ![c] = "done"]
    /\ loc' = [loc EXCEPT ![c] = Loc0]
    /\ ret' = [ret EXCEPT ![c] = [status |-> "ok", at |-> "", doc |-> NoDoc, val |-> val]]

\* The caller goes on to its next API call.
Goto(c, label, l) ==
    /\ pc' = [pc EXCEPT ![c] = label]
    /\ loc' = [loc EXCEPT ![c] = l]
    /\ ret' = ret

\* The locals with which get_by_id(q) is entered from ctx.
Lookup(ctx, q, doc) == [ctx |-> ctx, q |-> q, cell |-> 0, row |-> <<>>, doc |-> doc]

-----------------------------------------------------------------------------
(* DocumentRepository.get_by_id, and what its callers do with the result *)

\* get_by_id returned `found` (NoDoc for None): the code of the caller up to
\* its next API call.
AfterGetById(c, found) ==
    CASE loc[c].ctx = "get_by_id" ->
            Finish(c, found)
      [] loc[c].ctx = "create_document" ->
            \* create_document: the check of a manual id, then repository.create
            IF found # NoDoc
            THEN Raise(c, "BusinessLogicError", "create_document")
            ELSE \E now \in Nows :
                    LET document == NewDocument(arg[c].id, arg[c], now)
                    IN  Goto(c, "find", Lookup("create", document.id, document))
      [] loc[c].ctx = "create" ->
            IF found # NoDoc
            THEN Raise(c, "ValidationError", "create")
            ELSE Goto(c, "create_headers", [loc[c] EXCEPT !.cell = 0, !.row = <<>>])
      [] OTHER ->
            \* soft_delete
            IF found = NoDoc
            THEN Raise(c, "BusinessLogicError", "soft_delete")
            ELSE Goto(c, "move_headers", [loc[c] EXCEPT !.doc = found, !.row = <<>>])

\* The method that wraps a failure of get_by_id's API calls: create catches
\* what its own call of get_by_id raises and raises it anew.
LookupMethod(c) == IF loc[c].ctx = "create" THEN "create" ELSE "get_by_id"

\* cell = self._worksheet.find(doc_id)
GetByIdFind(c) ==
    /\ pc[c] = "find"
    /\ UNCHANGED <<sheet, archive, op, arg, pre>>
    /\ \E ok \in BOOLEAN :
        IF ~ok THEN Raise(c, "DatabaseConnectionError", LookupMethod(c))
        ELSE LET cell == Find(sheet, loc[c].q)
             IN  IF cell = 0 THEN AfterGetById(c, NoDoc)
                 ELSE Goto(c, "row_values", [loc[c] EXCEPT !.cell = cell])

\* row_data = self._worksheet.row_values(cell.row)
GetByIdRowValues(c) ==
    /\ pc[c] = "row_values"
    /\ UNCHANGED <<sheet, archive, op, arg, pre>>
    /\ \E ok \in BOOLEAN :
        IF ~ok THEN Raise(c, "DatabaseConnectionError", LookupMethod(c))
        ELSE Goto(c, "headers", [loc[c] EXCEPT !.row = RowValues(sheet, loc[c].cell)])

\* headers = self._worksheet.row_values(1), then Document.from_sheet_row
GetByIdHeaders(c) ==
    /\ pc[c] = "headers"
    /\ UNCHANGED <<sheet, archive, op, arg, pre>>
    /\ \E ok \in BOOLEAN :
        IF ~ok THEN Raise(c, "DatabaseConnectionError", LookupMethod(c))
        ELSE AfterGetById(c, GetByIdResult(RowValues(sheet, 1), loc[c].row))

\* A caller calls DocumentRepository.get_by_id(doc_id).
CallGetById(c, doc_id) ==
    Begin(c, "get_by_id", [Arg0 EXCEPT !.id = doc_id], "find",
          Lookup("get_by_id", doc_id, NoDoc))

-----------------------------------------------------------------------------
(* DocumentRepository.create *)

\* headers = self._worksheet.row_values(1); values = [...]
CreateHeaders(c) ==
    /\ pc[c] = "create_headers"
    /\ UNCHANGED <<sheet, archive, op, arg, pre>>
    /\ \E ok \in BOOLEAN :
        IF ~ok THEN Raise(c, "DatabaseConnectionError", "create")
        ELSE Goto(c, "create_append",
                  [loc[c] EXCEPT !.row = ValuesFor(ToSheetRow(loc[c].doc),
                                                   RowValues(sheet, 1))])

\* self._worksheet.append_row(values); return True.  create_document then
\* returns the document.
CreateAppend(c) ==
    /\ pc[c] = "create_append"
    /\ UNCHANGED <<archive, op, arg, pre>>
    /\ \E ok \in BOOLEAN :
        IF ~ok
        THEN Raise(c, "DatabaseConnectionError", "create") /\ sheet' = sheet
        ELSE /\ sheet' = AppendRow(sheet, loc[c].row, SheetWidth)
             /\ Finish(c, loc[c].doc)

\* A caller calls DocumentRepository.create(document).
CallCreate(c, document) ==
    /\ RoomToCreate
    /\ Begin(c, "create", [Arg0 EXCEPT !.doc = document], "find",
             Lookup("create", document.id, document))

-----------------------------------------------------------------------------
(* DocumentService.create_document *)

\* Mutant of FormInvalid: a subject of any length is accepted.
FormInvalidAnyLength(a) ==
    \/ ~Truthy(a.doc.agency)
    \/ ~Truthy(a.doc.subject)
    \/ (~Truthy(a.id) /\ a.doc.parent_id # NONE /\ ~Truthy(a.doc.parent_id))

\* create_document rejects the form before any id is allocated.
FormInvalid(a) ==
    \/ ~Truthy(a.doc.agency)
    \/ ~Truthy(a.doc.subject)
    \/ Len(a.doc.subject) < 5
    \/ (~Truthy(a.id) /\ a.doc.parent_id # NONE /\ ~Truthy(a.doc.parent_id))

\* A caller calls create_document(date, doc_type, agency, subject,
\* created_by, parent_id, drive_file_id, manual_id): a.doc holds the form,
\* a.id the manual id (NONE when absent), a.by the creator.
CallCreateDocument(c, a) ==
    /\ RoomToCreate
    /\ IF FormInvalid(a)
       THEN BeginRaise(c, "create_document", a, "ValidationError", "create_document")
       ELSE IF Truthy(a.id)
            THEN Begin(c, "create_document", a, "find",
                       Lookup("create_document", a.id, NoDoc))
            ELSE Begin(c, "create_document", a, "gen_get_all", Loc0)

\* all_docs = self.repository.get_all() in generate_document_id, then the
\* id, the Document, and repository.create up to its first API call.
GenGetAll(c) ==
    /\ pc[c] = "gen_get_all"
    /\ UNCHANGED <<sheet, archive, op, arg, pre>>
    /\ \E ok \in BOOLEAN :
        IF GetAllRaises(ok, sheet)
        THEN Raise(c, "DatabaseConnectionError", GetAllAt(ok))
        ELSE \E now \in Nows :
                LET a == arg[c]
                    doc_id == GenerateDocumentId(a.doc.date, a.doc.parent_id # NONE,
                                                 a.doc.parent_id, GetAll(sheet))
                    document == NewDocument(doc_id, a, now)
                IN  Goto(c, "find", Lookup("create", doc_id, document))

-----------------------------------------------------------------------------
(* DocumentRepository.update *)

\* cell = self._worksheet.find(document.id)
UpdateFind(c) ==
    /\ pc[c] = "update_find"
    /\ UNCHANGED <<sheet, archive, op, arg, pre>>
    /\ \E ok \in BOOLEAN :
        IF ~ok THEN Raise(c, "DatabaseConnectionError", "update")
        ELSE LET cell == Find(sheet, arg[c].doc.id)
             IN  IF cell = 0 THEN Raise(c, "RecordNotFoundError", "update")
                 ELSE Goto(c, "update_headers", [loc[c] EXCEPT !.cell = cell])

\* headers = self._worksheet.row_values(1); values = [...]
UpdateHeaders(c) ==
    /\ pc[c] = "update_headers"
    /\ UNCHANGED <<sheet, archive, op, arg, pre>>
    /\ \E ok \in BOOLEAN :
        IF ~ok THEN Raise(c, "DatabaseConnectionError", "update")
        ELSE Goto(c, "update_write",
                  [loc[c] EXCEPT !.row = ValuesFor(ToSheetRow(arg[c].doc),
                                                   RowValues(sheet, 1))])

\* self._worksheet.update(range_notation, [values]); the range is no range
\* when the header row read was empty.
UpdateWrite(c) ==
    /\ pc[c] = "update_write"
    /\ UNCHANGED <<archive, op, arg, pre>>
    /\ \E ok \in BOOLEAN :
        IF ~ok \/ loc[c].row = <<>>
        THEN Raise(c, "DatabaseConnectionError", "update") /\ sheet' = sheet
        ELSE /\ sheet' = UpdateRange(sheet, loc[c].cell, loc[c].row, SheetWidth)
             /\ Finish(c, NoDoc)

\* A caller calls DocumentRepository.update(document).
CallUpdate(c, document) ==
    Begin(c, "update", [Arg0 EXCEPT !.doc = document], "update_find", Loc0)

\* A caller calls DocumentService.update_document(document): the required
\* fields are checked, then repository.update.
CallUpdateDocument(c, document) ==
    IF ~Truthy(document.agency) \/ ~Truthy(document.subject)
    THEN BeginRaise(c, "update_document", [Arg0 EXCEPT !.doc = document],
                    "ValidationError", "update_document")
    ELSE Begin(c, "update_document", [Arg0 EXCEPT !.doc = document], "update_find", Loc0)

-----------------------------------------------------------------------------
(* DocumentRepository.delete *)

\* cell = self._worksheet.find(doc_id)
DeleteFind(c) ==
    /\ pc[c] = "delete_find"
    /\ UNCHANGED <<sheet, archive, op, arg, pre>>
    /\ \E ok \in BOOLEAN :
        IF ~ok THEN Raise(c, "DatabaseConnectionError", "delete")
        ELSE LET cell == Find(sheet, arg[c].id)
             IN  IF cell = 0 THEN Raise(c, "RecordNotFoundError", "delete")
                 ELSE Goto(c, "delete_rows", [loc[c] EXCEPT !.cell = cell])

\* self._worksheet.delete_rows(cell.row); return True
DeleteRowsStep(c) ==
    /\ pc[c] = "delete_rows"
    /\ UNCHANGED <<archive, op, arg, pre>>
    /\ \E ok \in BOOLEAN :
        IF ~ok
        THEN Raise(c, "DatabaseConnectionError", "delete") /\ sheet' = sheet
        ELSE /\ sheet' = DeleteRows(sheet, loc[c].cell)
             /\ Finish(c, NoDoc)

\* A caller calls DocumentRepository.delete(doc_id).
CallDelete(c, doc_id) ==
    Begin(c, "delete", [Arg0 EXCEPT !.id = doc_id], "delete_find", Loc0)

-----------------------------------------------------------------------------
(* DeletedDocumentRepository.move_to_deleted and DocumentService.soft_delete *)

\* headers = self._worksheet.row_values(1) of the archive worksheet, after
\* the row was stamped with datetime.now() and deleted_by.
MoveHeaders(c) ==
    /\ pc[c] = "move_headers"
    /\ UNCHANGED <<sheet, archive, op, arg, pre>>
    /\ \E ok \in BOOLEAN :
        IF ~ok THEN Raise(c, "DatabaseConnectionError", "move_to_deleted")
        ELSE \E now \in Nows :
                Goto(c, "move_append",
                     [loc[c] EXCEPT !.row =
                        ValuesFor(DeletedRowDict(loc[c].doc, now, arg[c].by),
                                  ArchiveHeaders)])

\* Mutant of MoveAppend: a failed append is swallowed and soft_delete goes
\* on to the live delete.
MoveAppendSwallowed(c) ==
    /\ pc[c] = "move_append"
    /\ UNCHANGED <<sheet, op, arg, pre>>
    /\ \E ok \in BOOLEAN :
        /\ archive' = IF ok THEN AppendRow(archive, loc[c].row, ArchiveWidth) ELSE archive
        /\ Goto(c, "delete_find", [loc[c] EXCEPT !.row = <<>>])

\* self._worksheet.append_row(values); return True.  soft_delete goes on to
\* self.repository.delete(doc_id).
MoveAppend(c) ==
    /\ pc[c] = "move_append"
    /\ UNCHANGED <<sheet, op, arg, pre>>
    /\ \E ok \in BOOLEAN :
        IF ~ok
        THEN Raise(c, "DatabaseConnectionError", "move_to_deleted") /\ archive' = archive
        ELSE /\ archive' = AppendRow(archive, loc[c].row, ArchiveWidth)
             /\ Goto(c, "delete_find", [loc[c] EXCEPT !.row = <<>>])

\* A caller calls soft_delete(doc_id, deleted_by, deleted_repo).
CallSoftDelete(c, doc_id, deleted_by) ==
    /\ RoomToArchive
    /\ Begin(c, "soft_delete", [Arg0 EXCEPT !.id = doc_id, !.by = deleted_by],
             "find", Lookup("soft_delete", doc_id, NoDoc))

-----------------------------------------------------------------------------
(* The caller takes the result and is free for its next call. *)

Return(c) ==
    /\ pc[c] = "done"
    /\ pc' = [pc EXCEPT ![c] = "idle"]
    /\ op' = [op EXCEPT ![c] = ""]
    /\ arg' = [arg EXCEPT ![c] = Arg0]
    /\ ret' = [ret EXCEPT ![c] = Ret0]
    /\ pre' = [pre EXCEPT ![c] = Pre0]
    /\ UNCHANGED <<sheet, archive, loc>>

-----------------------------------------------------------------------------
(* The operations that read the store and change nothing *)

\* The arguments of an operation that reads: an id (doc_id, root_id or
\* parent_id), a date, a document type, the flag is_reply.
QueryArg(id, date, type, is_reply) ==
    [id |-> id, doc |-> NoDoc, by |-> NONE, date |-> date, type |-> type,
     is_reply |-> is_reply]

\* A call returns before its first API call.
BeginReturn(c, name, a, val) ==
    /\ pc[c] = "idle"
    /\ pc' = [pc EXCEPT ![c] = "done"]
    /\ op' = [op EXCEPT ![c] = name]
    /\ arg' = [arg EXCEPT ![c] = a]
    /\ ret' = [ret EXCEPT ![c] = [status |-> "ok", at |-> "", doc |-> NoDoc, val |-> val]]
    /\ pre' = [pre EXCEPT ![c] = [sheet |-> sheet, archive |-> archive]]
    /\ UNCHANGED <<sheet, archive, loc>>

\* A caller calls generate_document_id(date, is_reply, parent_id).
CallGenerateDocumentId(c, date, is_reply, parent_id) ==
    IF is_reply /\ ~Truthy(parent_id)
    THEN BeginRaise(c, "generate_document_id", QueryArg(parent_id, date, NONE, is_reply),
                    "ValidationError", "generate_document_id")
    ELSE Begin(c, "generate_document_id", QueryArg(parent_id, date, NONE, is_reply),
               "genid_get_all", Loc0)

\* all_docs = self.repository.get_all() in generate_document_id called on
\* its own, then the id.
GenIdGetAll(c) ==
    /\ pc[c] = "genid_get_all"
    /\ UNCHANGED <<sheet, archive, op, arg, pre>>
    /\ \E ok \in BOOLEAN :
        IF GetAllRaises(ok, sheet)
        THEN Raise(c, "DatabaseConnectionError", GetAllAt(ok))
        ELSE FinishVal(c, GenerateDocumentId(arg[c].date, arg[c].is_reply,
                                             arg[c].id, GetAll(sheet)))

\* A caller calls get_conversation_thread(root_id).
CallGetConversationThread(c, root_id) ==
    Begin(c, "get_conversation_thread", QueryArg(root_id, NoDateTime, NONE, FALSE),
          "thread_get_all", Loc0)

\* all_docs = self.repository.get_all(), then build_thread_recursive(root_id)
ThreadGetAll(c) ==
    /\ pc[c] = "thread_get_all"
    /\ UNCHANGED <<sheet, archive, op, arg, pre>>
    /\ \E ok \in BOOLEAN :
        IF GetAllRaises(ok, sheet)
        THEN Raise(c, "DatabaseConnectionError", GetAllAt(ok))
        ELSE LET r == GetConversationThread(GetAll(sheet), arg[c].id)
             IN  IF r.raised
                 THEN Raise(c, "RecursionError", "get_conversation_thread")
                 ELSE FinishVal(c, r.thread)

\* A caller calls get_root_documents().
CallGetRootDocuments(c) ==
    Begin(c, "get_root_documents", Arg0, "roots_get_all", Loc0)

\* all_docs = self.repository.get_all(), then the filter
RootsGetAll(c) ==
    /\ pc[c] = "roots_get_all"
    /\ UNCHANGED <<sheet, archive, op, arg, pre>>
    /\ \E ok \in BOOLEAN :
        IF GetAllRaises(ok, sheet)
        THEN Raise(c, "DatabaseConnectionError", GetAllAt(ok))
        ELSE FinishVal(c, GetRootDocuments(GetAll(sheet)))

\* A caller calls check_reply_status(doc_id, doc_type, doc_date): a type
\* that is not tracked returns the neutral status without reading.
CallCheckReplyStatus(c, doc_id, doc_type, doc_date) ==
    IF ~Trackable(doc_type)
    THEN BeginReturn(c, "check_reply_status",
                     QueryArg(doc_id, doc_date, doc_type, FALSE), NeutralStatus)
    ELSE Begin(c, "check_reply_status", QueryArg(doc_id, doc_date, doc_type, FALSE),
               "status_get_all", Loc0)

\* all_docs = self.repository.get_all() in check_reply_status, then the
\* status with the clock read by datetime.now().
StatusGetAll(c) ==
    /\ pc[c] = "status_get_all"
    /\ UNCHANGED <<sheet, archive, op, arg, pre>>
    /\ \E ok \in BOOLEAN :
        IF GetAllRaises(ok, sheet)
        THEN Raise(c, "DatabaseConnectionError", GetAllAt(ok))
        ELSE \E now \in TrackNows :
                FinishVal(c, CheckReplyStatus(arg[c].id, arg[c].date, GetAll(sheet), now))

\* The locals of get_pending_replies in its loop: outgoing_docs, the index
\* of the document the loop is at, urgent_list and normal_list (and, for
\* the properties, the worksheet states since the call began).
PendingLoc(docs, i, urgent, normal, seen) ==
    [ctx |-> "", q |-> "", cell |-> 0, row |-> <<>>, doc |-> NoDoc,
     docs |-> docs, i |-> i, urgent |-> urgent, normal |-> normal, seen |-> seen]

\* What get_pending_replies returns: the two lists, each sorted.
PendingResult(urgent, normal) ==
    [urgent |-> SortByDaysWaiting(urgent), normal |-> SortByDaysWaiting(normal)]

\* Mutant of TrackingStatistics: max_waiting_days is taken from the last
\* entry of the urgent list.
TrackingStatisticsLastUrgent(urgent_list, normal_list) ==
    [ total_pending |-> Len(urgent_list) + Len(normal_list),
      urgent_count |-> Len(urgent_list),
      normal_count |-> Len(normal_list),
      max_waiting_days |->
        IF urgent_list # <<>>
        THEN urgent_list[Len(urgent_list)].status.days_waiting ELSE 0 ]

\* The dict get_tracking_statistics builds from the two lists.
TrackingStatistics(urgent_list, normal_list) ==
    [ total_pending |-> Len(urgent_list) + Len(normal_list),
      urgent_count |-> Len(urgent_list),
      normal_count |-> Len(normal_list),
      max_waiting_days |->
        IF urgent_list # <<>> THEN urgent_list[1].status.days_waiting ELSE 0 ]

\* get_pending_replies returns; get_tracking_statistics, which called it,
\* goes on to build its dict (kept with the lists it was built from).
PendingReturn(c, urgent, normal) ==
    LET lists == PendingResult(urgent, normal)
    IN  IF op[c] = "get_tracking_statistics"
        THEN FinishVal(c, [statistics |-> TrackingStatistics(lists.urgent, lists.normal),
                           urgent |-> lists.urgent, normal |-> lists.normal])
        ELSE FinishVal(c, lists)

\* A caller calls get_tracking_statistics(), which calls get_pending_replies.
CallGetTrackingStatistics(c) ==
    Begin(c, "get_tracking_statistics", Arg0, "pending_get_all",
          PendingLoc(<<>>, 0, <<>>, <<>>, {sheet}))

\* A caller calls get_pending_replies().
CallGetPendingReplies(c) ==
    Begin(c, "get_pending_replies", Arg0, "pending_get_all",
          PendingLoc(<<>>, 0, <<>>, <<>>, {sheet}))

\* all_docs = self.repository.get_all() in get_pending_replies, then
\* outgoing_docs; with no such document the loop is skipped.
PendingGetAll(c) ==
    /\ pc[c] = "pending_get_all"
    /\ UNCHANGED <<sheet, archive, op, arg, pre>>
    /\ \E ok \in BOOLEAN :
        IF GetAllRaises(ok, sheet)
        THEN Raise(c, "DatabaseConnectionError", GetAllAt(ok))
        ELSE LET outgoing_docs == OutgoingDocs(GetAll(sheet))
             IN  IF outgoing_docs = <<>>
                 THEN PendingReturn(c, <<>>, <<>>)
                 ELSE Goto(c, "pending_check",
                           PendingLoc(outgoing_docs, 1, <<>>, <<>>, loc[c].seen))

\* Mutant of PendingCheck: a document that has replies is listed as normal.
PendingCheckKeepsReplied(c) ==
    /\ pc[c] = "pending_check"
    /\ UNCHANGED <<sheet, archive, op, arg, pre>>
    /\ \E ok \in BOOLEAN :
        IF GetAllRaises(ok, sheet)
        THEN Raise(c, "DatabaseConnectionError", GetAllAt(ok))
        ELSE \E now \in TrackNows :
            LET l == loc[c]
                doc == l.docs[l.i]
                status == CheckReplyStatus(doc.id, doc.date, GetAll(sheet), now)
                entry == [doc |-> doc, status |-> status]
                urgent == IF status.need_tracking
                          THEN Append(l.urgent, entry) ELSE l.urgent
                normal == IF ~status.need_tracking
                          THEN Append(l.normal, entry) ELSE l.normal
            IN  IF l.i = Len(l.docs)
                THEN PendingReturn(c, urgent, normal)
                ELSE Goto(c, "pending_check",
                          PendingLoc(l.docs, l.i + 1, urgent, normal, l.seen))

\* One round of the loop of get_pending_replies: check_reply_status of the
\* document (its get_all, its clock reading), the document put on a list
\* when it has no reply; after the last round the two sorts and the return.
PendingCheck(c) ==
    /\ pc[c] = "pending_check"
    /\ UNCHANGED <<sheet, archive, op, arg, pre>>
    /\ \E ok \in BOOLEAN :
        IF GetAllRaises(ok, sheet)
        THEN Raise(c, "DatabaseConnectionError", GetAllAt(ok))
        ELSE \E now \in TrackNows :
            LET l == loc[c]
                doc == l.docs[l.i]
                status == CheckReplyStatus(doc.id, doc.date, GetAll(sheet), now)
                entry == [doc |-> doc, status |-> status]
                urgent == IF ~status.has_reply /\ status.need_tracking
                          THEN Append(l.urgent, entry) ELSE l.urgent
                normal == IF ~status.has_reply /\ ~status.need_tracking
                          THEN Append(l.normal, entry) ELSE l.normal
            IN  IF l.i = Len(l.docs)
                THEN PendingReturn(c, urgent, normal)
                ELSE Goto(c, "pending_check",
                          PendingLoc(l.docs, l.i + 1, urgent, normal, l.seen))

\* A caller calls Document.from_sheet_row(document.to_sheet_row()).
CallRoundTrip(c, document) ==
    /\ pc[c] = "idle"
    /\ pc' = [pc EXCEPT ![c] = "done"]
    /\ op' = [op EXCEPT ![c] = "round_trip"]
    /\ arg' = [arg EXCEPT ![c] = [Arg0 EXCEPT !.doc = document]]
    /\ ret' = [ret EXCEPT ![c] =
                LET row == ToSheetRow(document)
                IN  IF RowParses(row)
                    THEN [status |-> "ok", at |-> "", doc |-> FromSheetRow(row), val |-> <<>>]
                    ELSE [status |-> "ValueError", at |-> "from_sheet_row",
                          doc |-> NoDoc, val |-> <<>>]]
    /\ pre' = [pre EXCEPT ![c] = [sheet |-> sheet, archive |-> archive]]
    /\ UNCHANGED <<sheet, archive, loc>>

\* A caller calls DocumentRepository.get_all().
CallGetAll(c) == Begin(c, "get_all", Arg0, "get_all_records", Loc0)

\* records = self._worksheet.get_all_records(), then the loop over the rows
GetAllStep(c) ==
    /\ pc[c] = "get_all_records"
    /\ UNCHANGED <<sheet, archive, op, arg, pre>>
    /\ \E ok \in BOOLEAN :
        IF GetAllRaises(ok, sheet)
        THEN Raise(c, "DatabaseConnectionError", GetAllAt(ok))
        ELSE FinishVal(c, GetAll(sheet))

\* The arguments of search_documents; NONE and NoDateTime stand for None.
SearchArg(keyword, date_start, date_end, doc_type, agency) ==
    [id |-> NONE, doc |-> NoDoc, by |-> NONE, keyword |-> keyword,
     date_start |-> date_start, date_end |-> date_end, type |-> doc_type,
     agency |-> agency]

\* A caller calls search_documents(keyword, date_start, date_end, doc_type,
\* agency): a keyword of one character is rejected before the store is read.
CallSearchDocuments(c, a) ==
    IF Truthy(a.keyword) /\ Len(a.keyword) < 2
    THEN BeginRaise(c, "search_documents", a, "ValidationError", "search_documents")
    ELSE Begin(c, "search_documents", a, "search_get_all", Loc0)

\* all_docs = self.repository.get_all() in search_documents, then the filters
SearchGetAll(c) ==
    /\ pc[c] = "search_get_all"
    /\ UNCHANGED <<sheet, archive, op, arg, pre>>
    /\ \E ok \in BOOLEAN :
        IF GetAllRaises(ok, sheet)
        THEN Raise(c, "DatabaseConnectionError", GetAllAt(ok))
        ELSE FinishVal(c, SearchDocuments(arg[c], GetAll(sheet)))

-----------------------------------------------------------------------------
(* Inputs of the specifications *)

\* The forms create_document is called with.
Forms(manual_ids, parent_ids, subjects) ==
    { [id |-> m, doc |-> FormDoc(s, p), by |-> u] :
        m \in manual_ids, p \in parent_ids, s \in subjects, u \in InUsers }

MainForms == Forms({NONE, MainId}, {NONE, MainId}, {"Budget plan", "abc"})

AutoForms == Forms({NONE}, {NONE, MainId}, {"Budget plan"})

ManualForms == Forms({NONE, MainId, HeaderId}, {NONE}, {"Budget plan"})

HeldDocs == { HeldDoc(i, p) : i \in {MainId, FirstRootId}, p \in {NONE, MainId} }

TargetIds == {MainId, FirstRootId}

-----------------------------------------------------------------------------
(* Specifications *)

\* The steps of get_by_id and of create, which several operations share.
LookupSteps(c) ==
    \/ GetByIdFind(c)
    \/ GetByIdRowValues(c)
    \/ GetByIdHeaders(c)

CreateSteps(c) ==
    \/ CreateHeaders(c)
    \/ CreateAppend(c)

UpdateSteps(c) ==
    \/ UpdateFind(c)
    \/ UpdateHeaders(c)
    \/ UpdateWrite(c)

DeleteSteps(c) ==
    \/ DeleteFind(c)
    \/ DeleteRowsStep(c)

\* One caller at a time: the service operations create_document and
\* soft_delete, and updates of documents.
Next ==
    \E c \in {"c1"} :
        \/ \E a \in MainForms : CallCreateDocument(c, a)
        \/ \E d \in HeldDocs : CallUpdate(c, d)
        \/ \E i \in TargetIds \cup {HeaderId}, u \in InUsers : CallSoftDelete(c, i, u)
        \/ GenGetAll(c)
        \/ LookupSteps(c)
        \/ CreateSteps(c)
        \/ UpdateSteps(c)
        \/ MoveHeaders(c)
        \/ MoveAppend(c)
        \/ DeleteSteps(c)
        \/ Return(c)

Spec == Init /\ [][Next]_vars

\* One caller at a time: the repository operations.
RepoNext ==
    \E c \in {"c1"} :
        \/ \E d \in HeldDocs : CallCreate(c, d)
        \/ \E d \in HeldDocs : CallUpdate(c, d)
        \/ \E i \in TargetIds : CallDelete(c, i)
        \/ \E i \in TargetIds \cup {HeaderId} : CallGetById(c, i)
        \/ LookupSteps(c)
        \/ CreateSteps(c)
        \/ UpdateSteps(c)
        \/ DeleteSteps(c)
        \/ Return(c)

RepoSpec == Init /\ [][RepoNext]_vars

\* One caller at a time, creations only, from the empty store.
CreateNext ==
    \E c \in {"c1"} :
        \/ \E a \in ManualForms : CallCreateDocument(c, a)
        \/ \E d \in HeldDocs : CallCreate(c, d)
        \/ GenGetAll(c)
        \/ LookupSteps(c)
        \/ CreateSteps(c)
        \/ Return(c)

CreateSpec == Init /\ [][CreateNext]_vars

\* Two callers whose steps interleave, each creating documents with
\* allocated ids.
ConcCreateNext ==
    \E c \in Callers :
        \/ \E a \in AutoForms : CallCreateDocument(c, a)
        \/ GenGetAll(c)
        \/ LookupSteps(c)
        \/ CreateSteps(c)
        \/ Return(c)

ConcCreateSpec == Init /\ [][ConcCreateNext]_vars

\* One caller at a time: create_document, soft_delete and the listing of
\* the root documents.
RootsNext ==
    \E c \in {"c1"} :
        \/ \E a \in MainForms : CallCreateDocument(c, a)
        \/ \E i \in TargetIds, u \in InUsers : CallSoftDelete(c, i, u)
        \/ CallGetRootDocuments(c)
        \/ GenGetAll(c)
        \/ LookupSteps(c)
        \/ CreateSteps(c)
        \/ MoveHeaders(c)
        \/ MoveAppend(c)
        \/ DeleteSteps(c)
        \/ RootsGetAll(c)
        \/ Return(c)

RootsSpec == Init /\ [][RootsNext]_vars

\* The stores the reading operations are applied to: the header row and up
\* to MaxDocs rows of different documents of the pool, in any order.
QueryStores ==
    UNION { { << DocHeaders >> \o [i \in 1..n |-> ValuesFor(ToSheetRow(Pool[f[i]]), DocHeaders)] :
                f \in { g \in [1..n -> 1..Len(Pool)] :
                          \A i, j \in 1..n : i # j => g[i] # g[j] } } :
            n \in 0..MaxDocs }

QueryInit ==
    /\ sheet \in QueryStores
    /\ archive = <<>>
    /\ pc = [c \in Callers |-> "idle"]
    /\ op = [c \in Callers |-> ""]
    /\ arg = [c \in Callers |-> Arg0]
    /\ loc = [c \in Callers |-> Loc0]
    /\ ret = [c \in Callers |-> Ret0]
    /\ pre = [c \in Callers |-> Pre0]

QueryDates == {DateTime(1, 0), DateTime(2, 2)}

QueryIds == {MainId, ReplyId, FirstRootId, "Z9"}

\* One caller at a time: the operations that read, on any store.
QueryNext ==
    \E c \in {"c1"} :
        \/ \E r \in BOOLEAN, p \in {NONE, MainId, ReplyId} :
                CallGenerateDocumentId(c, DateTime(1, 2), r, p)
        \/ \E i \in QueryIds : CallGetConversationThread(c, i)
        \/ CallGetRootDocuments(c)
        \/ \E i \in {MainId, FirstRootId}, t \in DocumentType, d \in QueryDates :
                CallCheckReplyStatus(c, i, t, d)
        \/ CallGetPendingReplies(c)
        \/ GenIdGetAll(c)
        \/ ThreadGetAll(c)
        \/ RootsGetAll(c)
        \/ StatusGetAll(c)
        \/ PendingGetAll(c)
        \/ PendingCheck(c)
        \/ Return(c)

QuerySpec == QueryInit /\ [][QueryNext]_vars

\* One caller at a time: the statistics of the pending report, on any store.
StatsNext ==
    \E c \in {"c1"} :
        \/ CallGetTrackingStatistics(c)
        \/ PendingGetAll(c)
        \/ PendingCheck(c)
        \/ Return(c)

StatsSpec == QueryInit /\ [][StatsNext]_vars

\* The worksheets made of the header row and up to max of the given rows,
\* each row once at most, in any order.
StoresOfRows(rows, max) ==
    UNION { { << DocHeaders >> \o [i \in 1..n |-> rows[f[i]]] :
                f \in { g \in [1..n -> 1..Len(rows)] :
                          \A i, j \in 1..n : i # j => g[i] # g[j] } } :
            n \in 0..max }

\* The rows of documents, as create writes them.
RowsOfDocs(docs) == [i \in 1..Len(docs) |-> ValuesFor(ToSheetRow(docs[i]), DocHeaders)]

\* The state before any call, on one of the given worksheets.
StoreInit(stores) ==
    /\ sheet \in stores
    /\ archive = <<>>
    /\ pc = [c \in Callers |-> "idle"]
    /\ op = [c \in Callers |-> ""]
    /\ arg = [c \in Callers |-> Arg0]
    /\ loc = [c \in Callers |-> Loc0]
    /\ ret = [c \in Callers |-> Ret0]
    /\ pre = [c \in Callers |-> Pre0]

\* The forms of the service specification: with and without manual id;
\* agency and subject empty or not; subjects of 4 and of 5 characters.
ServiceForms ==
    { [id |-> m,
       doc |-> Document(NONE, InDate, "OUTGOING", g, s, NONE, NONE, NoDateTime,
                        NONE, "pending", NONE, NoDateTime),
       by |-> "alice"] :
        m \in {NONE, MainId}, g \in {"MOE", ""}, s \in {"abcde", "abcd", ""} }

\* The documents update is called with: as their creation left them, with
\* the subject edited (also to nothing), or with another creator or time of
\* creation.
EditedDocs ==
    { Document(i, InDate, "OUTGOING", "MOE", s, NONE, NONE, DateTime(5, t), u,
               "pending", NONE, NoDateTime) :
        i \in {MainId, FirstRootId}, s \in {"abcde", "abc", ""},
        t \in {1, 2}, u \in {"alice", "bob"} }

\* One caller at a time: create_document, update_document, and the
\* repository's update and delete.
ServiceNext ==
    \E c \in {"c1"} :
        \/ \E a \in ServiceForms : CallCreateDocument(c, a)
        \/ \E d \in EditedDocs : CallUpdateDocument(c, d)
        \/ \E d \in EditedDocs : CallUpdate(c, d)
        \/ \E i \in TargetIds : CallDelete(c, i)
        \/ GenGetAll(c)
        \/ LookupSteps(c)
        \/ CreateSteps(c)
        \/ UpdateSteps(c)
        \/ DeleteSteps(c)
        \/ Return(c)

ServiceSpec == Init /\ [][ServiceNext]_vars

\* One caller at a time: create_document with allocated ids, of roots and
\* of replies, and soft_delete.
AllocNext ==
    \E c \in {"c1"} :
        \/ \E a \in AutoForms : CallCreateDocument(c, a)
        \/ \E i \in {FirstRootId, SecondRootId, ReplyId}, u \in InUsers :
                CallSoftDelete(c, i, u)
        \/ GenGetAll(c)
        \/ LookupSteps(c)
        \/ CreateSteps(c)
        \/ MoveHeaders(c)
        \/ MoveAppend(c)
        \/ DeleteSteps(c)
        \/ Return(c)

AllocSpec == Init /\ [][AllocNext]_vars

\* The documents update is called with by the callers that interleave.
RevisedDocs ==
    { [HeldDoc(i, NONE) EXCEPT !.subject = "Revised plan"] : i \in TargetIds }

\* A worksheet of three documents that do not refer to one another.
ThreeRoots ==
    << DocHeaders >>
    \o RowsOfDocs(<< HeldDoc(MainId, NONE), HeldDoc(FirstRootId, NONE), HeldDoc("Z9", NONE) >>)

\* Two callers whose steps interleave: the repository's delete and update.
ConcWriteNext ==
    \E c \in Callers :
        \/ \E i \in TargetIds : CallDelete(c, i)
        \/ \E d \in RevisedDocs : CallUpdate(c, d)
        \/ UpdateSteps(c)
        \/ DeleteSteps(c)
        \/ Return(c)

ConcWriteInit == StoreInit({ThreeRoots})

ConcWriteSpec == ConcWriteInit /\ [][ConcWriteNext]_vars

\* The steps of the caller that asks for the pending report.
ReportSteps(c) ==
    \/ CallGetPendingReplies(c)
    \/ PendingGetAll(c)
    \/ PendingCheck(c)
    \/ Return(c)

\* The steps of the caller that creates and deletes meanwhile.
WriterSteps(c) ==
    \/ \E a \in AutoForms : CallCreateDocument(c, a)
    \/ CallDelete(c, MainId)
    \/ GenGetAll(c)
    \/ LookupSteps(c)
    \/ CreateSteps(c)
    \/ DeleteSteps(c)
    \/ Return(c)

\* Two callers whose steps interleave: one asks for the pending report, the
\* other creates and deletes documents.
ConcPendingNext ==
    \/ ReportSteps("c1")
    \/ WriterSteps("c2")

ConcPendingInit ==
    StoreInit({ << DocHeaders >> \o RowsOfDocs(<< HeldDoc(MainId, NONE) >>) })

ConcPendingSpec == ConcPendingInit /\ [][ConcPendingNext]_vars

\* Two callers whose steps interleave, each calling soft_delete, also again
\* after a call that failed.
ConcDeleteNext ==
    \E c \in Callers :
        \/ \E i \in TargetIds, u \in InUsers : CallSoftDelete(c, i, u)
        \/ LookupSteps(c)
        \/ MoveHeaders(c)
        \/ MoveAppend(c)
        \/ DeleteSteps(c)
        \/ Return(c)

ConcDeleteInit ==
    StoreInit({ << DocHeaders >>
                \o RowsOfDocs(<< HeldDoc(MainId, NONE), HeldDoc(FirstRootId, NONE) >>) })

ConcDeleteSpec == ConcDeleteInit /\ [][ConcDeleteNext]_vars

\* The valid documents: every type and OCR status, each optional field
\* present or absent.
ValidDocs ==
    { Document("M1", InDate, t, "MOE", "Budget plan", p, f, ca, cb, os, ot, od) :
        t \in DocumentType, p \in {NONE, "P1"}, f \in {NONE, "F1"},
        ca \in {NoDateTime, DateTime(5, 1)}, cb \in {NONE, "alice"},
        os \in OCRStatus, ot \in {NONE, "text"},
        od \in {NoDateTime, DateTime(6, 2)} }

\* The model classes and their conversions.
RoundTripNext ==
    \E c \in {"c1"} :
        \/ \E d \in ValidDocs : CallRoundTrip(c, d)
        \/ Return(c)

RoundTripSpec == Init /\ [][RoundTripNext]_vars

\* A stored row with one cell set to a text.
RowWith(doc, column, text) ==
    ValuesFor([ToSheetRow(doc) EXCEPT ![column] = text], DocHeaders)

\* The rows the worksheets of the scan are made of: two rows of documents,
\* a row whose type is no document type, a row without date, a row whose
\* date is written without dashes, a row whose creation time is a year.
ScanRows ==
    << ValuesFor(ToSheetRow(HeldDoc(MainId, NONE)), DocHeaders),
       ValuesFor(ToSheetRow(HeldDoc(FirstRootId, MainId)), DocHeaders),
       RowWith(HeldDoc("B1", NONE), FN_TYPE, "UNKNOWN"),
       RowWith(HeldDoc("B2", NONE), FN_DATE, ""),
       RowWith(HeldDoc("B3", NONE), FN_DATE, "20240101"),
       RowWith(HeldDoc("B4", NONE), FN_CREATED_AT, "2024") >>

\* One caller at a time: the full scan, on any worksheet.
ScanNext ==
    \E c \in {"c1"} :
        \/ CallGetAll(c)
        \/ GetAllStep(c)
        \/ Return(c)

ScanInit == StoreInit(StoresOfRows(ScanRows, MaxDocs))

ScanSpec == ScanInit /\ [][ScanNext]_vars

SearchStores == StoresOfRows(RowsOfDocs(SearchPool), MaxDocs)

SearchInit == StoreInit(SearchStores)

\* The arguments the search is called with: no keyword, the empty keyword,
\* a keyword of one character, a keyword; no bound, a bound at midnight, a
\* bound later in the day; no type, a type; no agency, two agencies.
SearchArgs ==
    { SearchArg(k, ds, de, t, g) :
        k \in {NONE, "", "a", "Tax"},
        ds \in {NoDateTime, DateTime(2, 0)},
        de \in {NoDateTime, DateTime(2, 0), DateTime(2, 1)},
        t \in {NONE, "OUTGOING"},
        g \in {NONE, "MO", "MOF"} }

\* One caller at a time: the search, on any store.
SearchNext ==
    \E c \in {"c1"} :
        \/ \E a \in SearchArgs : CallSearchDocuments(c, a)
        \/ SearchGetAll(c)
        \/ Return(c)

SearchSpec == SearchInit /\ [][SearchNext]_vars

-----------------------------------------------------------------------------
(* Vocabulary of the properties *)

\* The live set of a worksheet: the documents get_all() returns.
LiveIds(sh) == {GetAll(sh)[i].id : i \in 1..Len(GetAll(sh))}

HasLive(sh, id) == id \in LiveIds(sh)

\* The data rows of a worksheet whose ID cell holds id.
RowsOf(sh, id) == {r \in 2..Len(sh) : sh[r][1] = id}

\* The archive holds a record of document id with both deletion columns filled.
Archived(ar, id) ==
    \E k \in 1..Len(ar) :
        /\ ar[k][1] = id
        /\ ar[k][Len(DocHeaders) + 1] # ""
        /\ ar[k][Len(DocHeaders) + 2] # ""

\* Caller c has ended a call of operation name.
Ended(c, name) == pc[c] = "done" /\ op[c] = name

\* The call of c ended without a failure of the store.
StoreHeld(c) == ret[c].status # "DatabaseConnectionError"

\* The call of c ended with a result.
Returned(c, name) == Ended(c, name) /\ ret[c].status = "ok"

\* The live documents the call of c found, in scan order.
Found(c) == GetAll(pre[c].sheet)

\* The positions, in scan order, of the live documents that satisfy P.
Where(docs, P(_)) == {i \in 1..Len(docs) : P(docs[i])}

\* Text s holds text p as a substring.
Contains(s, p) ==
    \E k \in 1..(Len(s) - Len(p) + 1) : SubSeq(s, k, k + Len(p) - 1) = p

\* Text of a sequence number, zero-padded to w digits.
SeqText(n, w) == ZeroPad(ToStr(n), w)

RECURSIVE Closure(_, _)
\* The ids in ids and the ids of their replies, of the replies to these,
\* and so on.
Closure(docs, ids) ==
    LET more == ids \cup {docs[i].id : i \in Where(docs, LAMBDA d : d.parent_id \in ids)}
    IN  IF more = ids THEN ids ELSE Closure(docs, more)

\* The replies to id, direct or not.
RepliesBelow(docs, id) ==
    Closure(docs, {docs[i].id : i \in Where(docs, LAMBDA d : d.parent_id = id)})

\* No document is a reply, direct or not, to itself.
Acyclic(docs) == \A i \in 1..Len(docs) : docs[i].id \notin RepliesBelow(docs, docs[i].id)

UniqueIds(docs) == \A i, j \in 1..Len(docs) : i # j => docs[i].id # docs[j].id

\* The position of a document in scan order.
ScanIndex(docs, d) == CHOOSE i \in 1..Len(docs) : docs[i] = d

\* A live document that no live document replies to.
ReplyLess(docs, d) == Where(docs, LAMBDA r : r.parent_id = d.id) = {}

-----------------------------------------------------------------------------
(* Properties *)

\* C1: with one caller at a time and from the empty store, after any
\* sequence of create_document and DocumentRepository.create calls no two
\* live documents share an id.
C1_UniqueIds ==
    \A i, j \in 1..Len(GetAll(sheet)) :
        i # j => GetAll(sheet)[i].id # GetAll(sheet)[j].id

\* C2: with two callers creating documents with allocated ids, a create-time
\* duplicate check lets the create go on to its append only if, when the
\* check runs, no live document has the id: a check that runs after the
\* other caller's append of the same id fails, so two live documents with
\* one id arise only when both checks ran before either append.
C2_CheckSeesEarlierAppend ==
    [][ \A c \in Callers :
          (/\ loc[c].ctx = "create"
           /\ pc[c] \in {"find", "row_values", "headers"}
           /\ pc'[c] = "create_headers")
          => ~HasLive(sheet, loc[c].q) ]_vars

\* C2, witness: both callers created for the same date and parent on the
\* same store state; one create succeeded and the other caller's check,
\* which ran after that append, failed.
C2_Witness ==
    \E c, d \in Callers :
        /\ c # d
        /\ Ended(c, "create_document") /\ ret[c].status = "ok"
        /\ Ended(d, "create_document")
        /\ ret[d].status = "ValidationError" /\ ret[d].at = "create"
        /\ arg[c] = arg[d]
        /\ pre[c].sheet = pre[d].sheet
        /\ HasLive(sheet, ret[c].doc.id)

C4_SoftDeleteMoves ==
    \A c \in Callers :
        (/\ Ended(c, "soft_delete")
         /\ ret[c].status = "ok"
         /\ HasLive(pre[c].sheet, arg[c].id))
        => (~HasLive(sheet, arg[c].id) /\ Archived(archive, arg[c].id))

\* C5: when, in soft_delete(id) of a live document, the archive append
\* succeeds and the live delete then fails, the call ends with an error and
\* the document is both live and archived.
C5_DuplicateNotLoss ==
    \A c \in Callers :
        (/\ Ended(c, "soft_delete")
         /\ HasLive(pre[c].sheet, arg[c].id)
         /\ Len(archive) = Len(pre[c].archive) + 1
         /\ ret[c].at = "delete")
        => (/\ ret[c].status # "ok"
            /\ HasLive(sheet, arg[c].id)
            /\ Archived(archive, arg[c].id))

\* C6: create(doc) ends with the duplicate-id error and an unchanged
\* worksheet exactly when a live document has doc's id; otherwise it
\* appends one row, the row of doc, and succeeds (store failures aside).
C6_CreateDuplicateIff ==
    \A c \in Callers :
        (Ended(c, "create") /\ StoreHeld(c))
        => IF HasLive(pre[c].sheet, arg[c].doc.id)
           THEN ret[c].status = "ValidationError" /\ sheet = pre[c].sheet
           ELSE /\ ret[c].status = "ok"
                /\ sheet = Append(pre[c].sheet, ValuesFor(ToSheetRow(arg[c].doc), DocHeaders))

\* C7: get_by_id(id) returns a document with the requested id when a live
\* document has it, and None when none has; it never returns a document
\* with another id.
C7_GetByIdExact ==
    \A c \in Callers :
        (Ended(c, "get_by_id") /\ StoreHeld(c))
        => /\ ret[c].status = "ok"
           /\ IF HasLive(pre[c].sheet, arg[c].id)
              THEN ret[c].doc.id = arg[c].id
              ELSE ret[c].doc = NoDoc

\* C8: update(doc) fails with NotFound and changes nothing when no live
\* document has doc's id; otherwise it replaces the row of that document by
\* doc's row and leaves every other row as it was.
C8_UpdateFrame ==
    \A c \in Callers :
        (Ended(c, "update") /\ StoreHeld(c))
        => IF ~HasLive(pre[c].sheet, arg[c].doc.id)
           THEN ret[c].status = "RecordNotFoundError" /\ sheet = pre[c].sheet
           ELSE /\ ret[c].status = "ok"
                /\ Len(sheet) = Len(pre[c].sheet)
                /\ \A r \in 1..Len(sheet) :
                     sheet[r] = IF r \in RowsOf(pre[c].sheet, arg[c].doc.id)
                                THEN ValuesFor(ToSheetRow(arg[c].doc), DocHeaders)
                                ELSE pre[c].sheet[r]

\* C9: delete(id) fails with NotFound and changes nothing when no live
\* document has that id; otherwise it removes the row of the document with
\* that id and nothing else, the other rows keeping their order.
C9_DeleteFrame ==
    \A c \in Callers :
        (Ended(c, "delete") /\ StoreHeld(c))
        => IF ~HasLive(pre[c].sheet, arg[c].id)
           THEN ret[c].status = "RecordNotFoundError" /\ sheet = pre[c].sheet
           ELSE /\ ret[c].status = "ok"
                /\ \E r \in RowsOf(pre[c].sheet, arg[c].id) :
                     sheet = DeleteRows(pre[c].sheet, r)

\* C10: soft_delete of an id that no live document has fails, and neither
\* the archive nor the live worksheet is modified.
C10_SoftDeleteAbsent ==
    \A c \in Callers :
        (Ended(c, "soft_delete") /\ ~HasLive(pre[c].sheet, arg[c].id))
        => (/\ ret[c].status # "ok"
            /\ sheet = pre[c].sheet
            /\ archive = pre[c].archive)

\* C11 as stated: generate_document_id(d, is_reply=False) returns the
\* general prefix, the date as YYYYMMDD and, in three digits, 1 + the number
\* of live documents whose id starts with the general prefix followed by
\* that YYYYMMDD.
C11_RootSeqCountsIdPrefix ==
    \A c \in Callers :
        (Returned(c, "generate_document_id") /\ ~arg[c].is_reply)
        => ret[c].val =
             ID_PREFIX_GENERAL \o StrfYmd(arg[c].date)
             \o SeqText(1 + Cardinality(Where(Found(c),
                    LAMBDA d : StartsWith(d.id, ID_PREFIX_GENERAL \o StrfYmd(arg[c].date)))), 3)

\* C11, amended: generate_document_id(d, is_reply=False) returns the general
\* prefix, the date as YYYYMMDD and, in three digits, 1 + the number of live
\* rows whose Date cell is the day of d and whose ID cell starts with the
\* general prefix.
C11_RootSeqCountsDateField ==
    \A c \in Callers :
        (Returned(c, "generate_document_id") /\ ~arg[c].is_reply)
        => LET sh == pre[c].sheet
               same_day == {r \in 2..Len(sh) :
                              /\ RowParses(ZipDict(sh[1], sh[r]))
                              /\ sh[r][2] = StrfDate(DateTime(arg[c].date.day, 0))
                              /\ StartsWith(sh[r][1], ID_PREFIX_GENERAL)}
           IN  ret[c].val = ID_PREFIX_GENERAL \o StrfYmd(arg[c].date)
                              \o SeqText(1 + Cardinality(same_day), 3)

\* C11, witness: with two live documents whose ids were allocated for the
\* date, one of them dated another day since, the id returned has
\* sequence 002.
C11_Witness ==
    \E c \in Callers :
        /\ Returned(c, "generate_document_id") /\ ~arg[c].is_reply
        /\ arg[c].date.day = 1
        /\ HasLive(pre[c].sheet, FirstRootId)
        /\ HasLive(pre[c].sheet, SecondRootId)
        /\ ret[c].val = ID_PREFIX_GENERAL \o "20240101002"

\* C12 as stated: generate_document_id(date, is_reply=True, P) returns the
\* reply prefix, in two digits 1 + the number of live documents whose id
\* starts with the reply prefix and holds P as a substring, and P.
C12_ReplySeqCountsIdSubstring ==
    \A c \in Callers :
        (Returned(c, "generate_document_id") /\ arg[c].is_reply)
        => ret[c].val =
             ID_PREFIX_REPLY
             \o SeqText(1 + Cardinality(Where(Found(c),
                    LAMBDA d : StartsWith(d.id, ID_PREFIX_REPLY) /\ Contains(d.id, arg[c].id))), 2)
             \o arg[c].id

\* C12, amended: generate_document_id(date, is_reply=True, P) returns the
\* reply prefix, in two digits 1 + the number of live rows whose Parent_ID
\* cell is P and whose ID cell starts with the reply prefix, and P.
C12_ReplySeqCountsParentField ==
    \A c \in Callers :
        (Returned(c, "generate_document_id") /\ arg[c].is_reply)
        => LET sh == pre[c].sheet
               replies == {r \in 2..Len(sh) :
                             /\ RowParses(ZipDict(sh[1], sh[r]))
                             /\ sh[r][6] = arg[c].id
                             /\ StartsWith(sh[r][1], ID_PREFIX_REPLY)}
           IN  ret[c].val = ID_PREFIX_REPLY \o SeqText(1 + Cardinality(replies), 2)
                              \o arg[c].id

\* C12, witness: with one allocated reply to P, a reply to that reply and a
\* reply to P with a manual id, the id returned for P has sequence 02.
C12_Witness ==
    \E c \in Callers :
        /\ Returned(c, "generate_document_id") /\ arg[c].is_reply
        /\ arg[c].id = MainId
        /\ HasLive(pre[c].sheet, ReplyId)
        /\ HasLive(pre[c].sheet, NestedReplyId)
        /\ HasLive(pre[c].sheet, "R1")
        /\ ret[c].val = ID_PREFIX_REPLY \o "02" \o MainId

\* C13: on an acyclic live set with unique ids, get_conversation_thread(root)
\* of a live id returns the root at depth 0 followed by all its direct and
\* indirect replies, each once, in depth-first pre-order: every later entry
\* is a reply to the nearest earlier entry of lesser depth, one level below
\* it, and replies to one document come in scan order.  (The sequence is
\* thereby a function of the snapshot.)
C13_ThreadPreOrder ==
    \A c \in Callers :
        (/\ Returned(c, "get_conversation_thread")
         /\ Acyclic(Found(c)) /\ UniqueIds(Found(c))
         /\ HasLive(pre[c].sheet, arg[c].id))
        => LET t == ret[c].val
               docs == Found(c)
           IN  /\ Len(t) >= 1
               /\ t[1].doc.id = arg[c].id /\ t[1].level = 0
               /\ \A k \in 1..Len(t) : \E i \in 1..Len(docs) : docs[i] = t[k].doc
               /\ {t[k].doc.id : k \in 1..Len(t)} = {arg[c].id} \cup RepliesBelow(docs, arg[c].id)
               /\ \A k, m \in 1..Len(t) : k # m => t[k].doc.id # t[m].doc.id
               /\ \A k \in 2..Len(t) :
                    LET above == {j \in 1..(k - 1) : t[j].level < t[k].level}
                        j == CHOOSE x \in above : \A y \in above : y <= x
                    IN  /\ above # {}
                        /\ t[j].level = t[k].level - 1
                        /\ t[k].doc.parent_id = t[j].doc.id
               /\ \A k, m \in 1..Len(t) :
                    (k < m /\ t[k].doc.parent_id = t[m].doc.parent_id)
                    => ScanIndex(docs, t[k].doc) < ScanIndex(docs, t[m].doc)

\* C13, witness: a root, a reply to it and a reply to the reply give a
\* thread of depths 0, 1, 2.
C13_Witness ==
    \E c \in Callers :
        /\ Returned(c, "get_conversation_thread")
        /\ Acyclic(Found(c)) /\ UniqueIds(Found(c))
        /\ Len(ret[c].val) = 3
        /\ ret[c].val[1].doc.id = MainId /\ ret[c].val[1].level = 0
        /\ ret[c].val[2].doc.id = ReplyId /\ ret[c].val[2].level = 1
        /\ ret[c].val[3].doc.id = NestedReplyId /\ ret[c].val[3].level = 2

\* C14: get_conversation_thread ends with a result, whatever the parent
\* links are (store failures aside), and no document id occurs twice in the
\* result.
C14_ThreadCycleSafe ==
    \A c \in Callers :
        (Ended(c, "get_conversation_thread") /\ StoreHeld(c) /\ UniqueIds(Found(c)))
        => /\ ret[c].status = "ok"
           /\ \A k, m \in 1..Len(ret[c].val) :
                k # m => ret[c].val[k].doc.id # ret[c].val[m].doc.id

\* C15: create_document of a reply whose parent is not live stores the
\* reply without error (store failures aside), and get_root_documents lists
\* every live document that has no parent or whose parent is not live.
C15_OrphansAreRoots ==
    \A c \in Callers :
        /\ (/\ Ended(c, "create_document") /\ StoreHeld(c)
            /\ ~FormInvalid(arg[c]) /\ arg[c].id = NONE
            /\ Truthy(arg[c].doc.parent_id)
            /\ ~HasLive(pre[c].sheet, arg[c].doc.parent_id))
           => (ret[c].status = "ok" /\ HasLive(sheet, ret[c].doc.id))
        /\ Returned(c, "get_root_documents")
           => \A i \in 1..Len(Found(c)) :
                (\/ ~Truthy(Found(c)[i].parent_id)
                 \/ ~HasLive(pre[c].sheet, Found(c)[i].parent_id))
                => \E k \in 1..Len(ret[c].val) : ret[c].val[k] = Found(c)[i]

\* C16: check_reply_status of a document of type INCOMING or MEMO returns
\* the neutral status in every store state, and no document of these types
\* is on either list of get_pending_replies.
C16_UntrackedNeutral ==
    \A c \in Callers :
        /\ (Ended(c, "check_reply_status") /\ arg[c].type \in {"INCOMING", "MEMO"})
           => /\ ret[c].status = "ok"
              /\ ret[c].val = [has_reply |-> FALSE, days_waiting |-> 0,
                               need_tracking |-> FALSE, reply_count |-> 0,
                               latest_reply_date |-> NoDateTime]
        /\ Returned(c, "get_pending_replies")
           => \A e \in {ret[c].val.urgent[k] : k \in 1..Len(ret[c].val.urgent)}
                   \cup {ret[c].val.normal[k] : k \in 1..Len(ret[c].val.normal)} :
                 e.doc.type \notin {"INCOMING", "MEMO"}

\* C16, witness: the neutral status was returned for an INCOMING document
\* to which a live reply exists.
C16_Witness ==
    \E c \in Callers :
        /\ Returned(c, "check_reply_status")
        /\ arg[c].type = "INCOMING"
        /\ Where(Found(c), LAMBDA d : d.parent_id = arg[c].id) # {}
        /\ ~ret[c].val.has_reply

\* C17: for a tracked type, need_tracking holds exactly when no live
\* document replies to the document and days_waiting is greater than 7, in
\* the status check_reply_status returns and in every status on the lists
\* of get_pending_replies.
C17_NeedTrackingThreshold ==
    \A c \in Callers :
        /\ (Returned(c, "check_reply_status") /\ arg[c].type \in {"OUTGOING", "LETTER"})
           => (ret[c].val.need_tracking
                 <=> /\ Where(Found(c), LAMBDA d : d.parent_id = arg[c].id) = {}
                     /\ ret[c].val.days_waiting > 7)
        /\ Returned(c, "get_pending_replies")
           => \A e \in {ret[c].val.urgent[k] : k \in 1..Len(ret[c].val.urgent)}
                   \cup {ret[c].val.normal[k] : k \in 1..Len(ret[c].val.normal)} :
                 e.status.need_tracking
                   <=> (ReplyLess(Found(c), e.doc) /\ e.status.days_waiting > 7)

\* C17, witness: a document without reply that has waited exactly 7 days
\* needs no tracking.
C17_Witness ==
    \E c \in Callers :
        /\ Returned(c, "check_reply_status")
        /\ arg[c].type = "OUTGOING"
        /\ Where(Found(c), LAMBDA d : d.parent_id = arg[c].id) = {}
        /\ ret[c].val.days_waiting = 7
        /\ ~ret[c].val.need_tracking

\* C18: for a tracked type, reply_count is the number of live documents
\* whose parent_id is the document's id, has_reply holds exactly when that
\* number is not 0, and latest_reply_date is the greatest date of these
\* documents, absent exactly when there is none.
C18_ReplyCountAndLatest ==
    \A c \in Callers :
        (Returned(c, "check_reply_status") /\ arg[c].type \in {"OUTGOING", "LETTER"})
        => LET replies == Where(Found(c), LAMBDA d : d.parent_id = arg[c].id)
               st == ret[c].val
           IN  /\ st.reply_count = Cardinality(replies)
               /\ st.has_reply <=> Cardinality(replies) > 0
               /\ (replies = {}) <=> (st.latest_reply_date = NoDateTime)
               /\ replies # {}
                    => /\ \E i \in replies : Found(c)[i].date = st.latest_reply_date
                       /\ \A i \in replies :
                            DateTimeLeq(Found(c)[i].date, st.latest_reply_date)

\* C18, witness: two replies, the later one first in scan order.
C18_Witness ==
    \E c \in Callers :
        /\ Returned(c, "check_reply_status")
        /\ ret[c].val.reply_count = 2
        /\ LET docs == Found(c)
               replies == Where(docs, LAMBDA d : d.parent_id = arg[c].id)
           IN  \E i, j \in replies :
                 /\ i < j
                 /\ docs[j].date.day < docs[i].date.day
                 /\ ret[c].val.latest_reply_date = docs[i].date

\* C19: the two lists of get_pending_replies hold exactly the live
\* documents of type OUTGOING or LETTER that no live document replies to,
\* each of them once on one list; the statuses on the urgent list have
\* need_tracking, those on the normal list have not.
C19_PendingPartition ==
    \A c \in Callers :
        Returned(c, "get_pending_replies")
        => LET docs == Found(c)
               urgent == ret[c].val.urgent
               normal == ret[c].val.normal
               Pending(d) == d.type \in {"OUTGOING", "LETTER"} /\ ReplyLess(docs, d)
           IN  /\ \A i \in 1..Len(docs) :
                    Pending(docs[i])
                    => Cardinality({k \in 1..Len(urgent) : urgent[k].doc = docs[i]})
                       + Cardinality({k \in 1..Len(normal) : normal[k].doc = docs[i]}) = 1
               /\ \A k \in 1..Len(urgent) :
                    /\ \E i \in 1..Len(docs) : docs[i] = urgent[k].doc /\ Pending(docs[i])
                    /\ urgent[k].status.need_tracking
               /\ \A k \in 1..Len(normal) :
                    /\ \E i \in 1..Len(docs) : docs[i] = normal[k].doc /\ Pending(docs[i])
                    /\ ~normal[k].status.need_tracking

\* C19, witness: both lists hold a document while a tracked document that
\* has a reply is on neither.
C19_Witness ==
    \E c \in Callers :
        /\ Returned(c, "get_pending_replies")
        /\ Len(ret[c].val.urgent) >= 1
        /\ Len(ret[c].val.normal) >= 1
        /\ \E i \in 1..Len(Found(c)) :
              /\ Found(c)[i].type \in {"OUTGOING", "LETTER"}
              /\ ~ReplyLess(Found(c), Found(c)[i])

\* C20: on each list of get_pending_replies days_waiting never increases
\* from one entry to the next, and of two entries with equal days_waiting
\* the one scanned first comes first.
C20_PendingSortedStable ==
    \A c \in Callers :
        Returned(c, "get_pending_replies")
        => \A list \in {ret[c].val.urgent, ret[c].val.normal} :
             \A k, m \in 1..Len(list) :
                k < m
                => /\ list[k].status.days_waiting >= list[m].status.days_waiting
                   /\ list[k].status.days_waiting = list[m].status.days_waiting
                        => ScanIndex(Found(c), list[k].doc) < ScanIndex(Found(c), list[m].doc)

\* C20, witness: a list of three entries where the document scanned first
\* has waited least and comes last, after two entries that have waited
\* equally long.
C20_Witness ==
    \E c \in Callers :
        /\ Returned(c, "get_pending_replies")
        /\ LET u == ret[c].val.urgent
           IN  /\ Len(u) = 3
               /\ u[1].status.days_waiting = u[2].status.days_waiting
               /\ u[2].status.days_waiting > u[3].status.days_waiting
               /\ ScanIndex(Found(c), u[3].doc) = 1

\* C21: get_tracking_statistics returns total_pending = urgent_count +
\* normal_count, the two counts being the lengths of the two pending lists,
\* and max_waiting_days = the greatest days_waiting of all the entries of the
\* two lists when the urgent list is not empty, 0 when it is empty.
C21_StatisticsOfLists ==
    \A c \in Callers :
        Returned(c, "get_tracking_statistics")
        => LET st == ret[c].val.statistics
               urgent == ret[c].val.urgent
               normal == ret[c].val.normal
               waits == {urgent[k].status.days_waiting : k \in 1..Len(urgent)}
                        \cup {normal[k].status.days_waiting : k \in 1..Len(normal)}
           IN  /\ st.total_pending = st.urgent_count + st.normal_count
               /\ st.urgent_count = Len(urgent)
               /\ st.normal_count = Len(normal)
               /\ st.urgent_count + st.normal_count
                    = Cardinality({i \in 1..Len(Found(c)) :
                                    /\ Found(c)[i].type \in {"OUTGOING", "LETTER"}
                                    /\ ReplyLess(Found(c), Found(c)[i])})
               /\ IF urgent = <<>>
                  THEN st.max_waiting_days = 0
                  ELSE /\ st.max_waiting_days \in waits
                       /\ \A w \in waits : w <= st.max_waiting_days

\* C21, witness: two urgent entries that have waited differently long and a
\* normal entry; max_waiting_days is the longer wait.
C21_Witness ==
    \E c \in Callers :
        /\ Returned(c, "get_tracking_statistics")
        /\ Len(ret[c].val.urgent) = 2
        /\ Len(ret[c].val.normal) = 1
        /\ ret[c].val.urgent[1].status.days_waiting > ret[c].val.urgent[2].status.days_waiting
        /\ ret[c].val.statistics.max_waiting_days = ret[c].val.urgent[1].status.days_waiting
        /\ ret[c].val.statistics.total_pending = 3

\* A document satisfies every predicate that search_documents was given
\* (the empty text is a substring of every text).
Matches(d, a) ==
    /\ a.keyword \notin {NONE, ""} => Contains(d.subject, a.keyword)
    /\ a.date_start # NoDateTime => DateTimeLeq(a.date_start, d.date)
    /\ a.date_end # NoDateTime => DateTimeLeq(d.date, a.date_end)
    /\ a.type # NONE => d.type = a.type
    /\ a.agency \notin {NONE, ""} => Contains(d.agency, a.agency)

\* C22 as stated: for every combination of predicates, search_documents
\* returns (store failures aside) the live documents that satisfy all the
\* predicates supplied, in scan order.
C22_SearchConjunction ==
    \A c \in Callers :
        (Ended(c, "search_documents") /\ StoreHeld(c))
        => /\ ret[c].status = "ok"
           /\ ret[c].val = SelectSeq(Found(c), LAMBDA d : Matches(d, arg[c]))

\* C22, amended: a call with a keyword of one character ends with
\* ValidationError; every other call returns (store failures aside) the live
\* documents that satisfy all the predicates supplied, in scan order.
C22_SearchConjunctionOrShortKeyword ==
    \A c \in Callers :
        (Ended(c, "search_documents") /\ StoreHeld(c))
        => IF arg[c].keyword # NONE /\ Len(arg[c].keyword) = 1
           THEN ret[c].status = "ValidationError"
           ELSE /\ ret[c].status = "ok"
                /\ ret[c].val = SelectSeq(Found(c), LAMBDA d : Matches(d, arg[c]))

\* C22, witness: a keyword and a type were supplied; of three live
\* documents one matches the keyword only, one the type only and one both,
\* and the last one alone is returned.
C22_Witness ==
    \E c \in Callers :
        /\ Returned(c, "search_documents")
        /\ arg[c].keyword = "Tax" /\ arg[c].type = "OUTGOING"
        /\ arg[c].date_start = NoDateTime /\ arg[c].date_end = NoDateTime
        /\ arg[c].agency = NONE
        /\ Len(Found(c)) = 3
        /\ \E i, j \in 1..3 :
              /\ Contains(Found(c)[i].subject, "Tax") /\ Found(c)[i].type # "OUTGOING"
              /\ ~Contains(Found(c)[j].subject, "Tax") /\ Found(c)[j].type = "OUTGOING"
        /\ Len(ret[c].val) = 1
        /\ ret[c].val[1].id = "D1"

\* C23: for every valid Document, also with optional fields absent,
\* Document.from_sheet_row(doc.to_sheet_row()) returns a document equal to
\* doc in every field.
C23_RoundTrip ==
    \A c \in Callers :
        Ended(c, "round_trip") => (ret[c].status = "ok" /\ ret[c].doc = arg[c].doc)

\* C24: get_all() returns, in row order, the documents of the rows that
\* parse, whatever the other rows hold; it ends with an error only when the
\* store itself failed, and then with a store error.
C24_ScanSkipsBadRows ==
    \A c \in Callers :
        Ended(c, "get_all")
        => \/ /\ ret[c].status = "ok"
              /\ LET sh == pre[c].sheet
                     good == SelectSeq([r \in 1..(Len(sh) - 1) |-> ZipDict(sh[1], sh[r + 1])],
                                       RowParses)
                 IN  ret[c].val = [i \in 1..Len(good) |-> FromSheetRow(good[i])]
           \/ /\ ret[c].status = "DatabaseConnectionError"
              /\ ret[c].at = "get_all"

\* The audit cells (Created_At, Created_By) of the rows of a live document.
AuditCells(sh, id) ==
    {<<sh[r][8], sh[r][9]>> : r \in {q \in RowsOf(sh, id) : RowParses(ZipDict(sh[1], sh[q]))}}

\* C25: no step of an operation changes the stored created_at or created_by
\* of a document that is live before and after the step.
C25_AuditFieldsKept ==
    [][ \A id \in LiveIds(sheet) \cap LiveIds(sheet') :
            AuditCells(sheet', id) = AuditCells(sheet, id) ]_vars

\* C26: a call of create_document with an empty agency, an empty subject or
\* a subject of fewer than 5 characters ends with ValidationError without
\* having taken a step (no id was allocated) and with the stores unchanged;
\* a call of create_document that changes the live worksheet appends one
\* row, whose subject has at least 5 characters.
C26_ShortSubjectRejected ==
    \A c \in Callers :
        /\ (/\ op[c] = "create_document"
            /\ \/ arg[c].doc.agency = ""
               \/ arg[c].doc.subject = ""
               \/ Len(arg[c].doc.subject) < 5)
           => /\ pc[c] = "done"
              /\ ret[c].status = "ValidationError"
              /\ ret[c].at = "create_document"
              /\ sheet = pre[c].sheet
              /\ archive = pre[c].archive
        /\ (Ended(c, "create_document") /\ sheet # pre[c].sheet)
           => /\ Len(sheet) = Len(pre[c].sheet) + 1
              /\ SubSeq(sheet, 1, Len(pre[c].sheet)) = pre[c].sheet
              /\ Len(sheet[Len(sheet)][5]) >= 5

\* C26, witness: on a store that holds a document, create_document with a
\* subject of 4 characters and an agency ended with ValidationError.
C26_Witness ==
    \E c \in Callers :
        /\ Ended(c, "create_document")
        /\ Len(arg[c].doc.subject) = 4
        /\ arg[c].doc.agency # ""
        /\ ret[c].status = "ValidationError"
        /\ Len(sheet) = 2
        /\ sheet = pre[c].sheet

\* C27: with one caller at a time, after any sequence of create_document
\* calls with allocated ids and soft_delete calls, the id that
\* generate_document_id returns to create_document is the id of no live
\* document, and create_document with an allocated id does not end with the
\* duplicate-id error.
C27_AllocatedIdIsFresh ==
    \A c \in Callers :
        /\ (/\ op[c] = "create_document" /\ arg[c].id = NONE
            /\ pc[c] = "find" /\ loc[c].ctx = "create")
           => ~HasLive(sheet, loc[c].q)
        /\ (Ended(c, "create_document") /\ arg[c].id = NONE)
           => ~(ret[c].status = "ValidationError" /\ ret[c].at = "create")

\* The rows of a worksheet that hold data and whose ID cell is not id, in
\* row order.
OtherRows(sh, id) == SelectSeq(sh, LAMBDA row : Trim(row) # <<>> /\ row[1] # id)

\* C28: under any interleaving of two callers, the write step of delete(X)
\* and of update(doc with id X) leaves every row of a document whose id is
\* not X as it was.
C28_WritesHitOwnRow ==
    [][ \A c \in Callers :
          (/\ op[c] \in {"delete", "update"}
           /\ pc[c] \in {"delete_rows", "update_write"}
           /\ pc'[c] = "done")
          => LET X == IF op[c] = "delete" THEN arg[c].id ELSE arg[c].doc.id
             IN  OtherRows(sheet', X) = OtherRows(sheet, X) ]_vars

\* The pending report of one state of the store, with the clock readings
\* of its checks.
PendingReport(all_docs, nows) ==
    LET out == OutgoingDocs(all_docs)
        entries == [i \in 1..Len(out) |->
                      [doc |-> out[i],
                       status |-> CheckReplyStatus(out[i].id, out[i].date, all_docs, nows[i])]]
    IN  [urgent |-> SortByDaysWaiting(SelectSeq(entries,
                        LAMBDA e : ~e.status.has_reply /\ e.status.need_tracking)),
         normal |-> SortByDaysWaiting(SelectSeq(entries,
                        LAMBDA e : ~e.status.has_reply /\ ~e.status.need_tracking))]

\* C29: when get_pending_replies returns while another caller creates and
\* deletes documents, the lists it returns are the pending report of one of
\* the states the store was in during the call.
C29_ReportOfOneState ==
    [][ \A c \in Callers :
          (/\ op[c] = "get_pending_replies"
           /\ pc[c] # "done" /\ pc'[c] = "done"
           /\ ret'[c].status = "ok")
          => \E sh \in loc[c].seen :
               \E nows \in [1..Len(OutgoingDocs(GetAll(sh))) -> TrackNows] :
                 ret'[c].val = PendingReport(GetAll(sh), nows) ]_vars

\* C30: no step removes or changes a row of the archive, and a document
\* that soft_delete has removed from the live store (in a run where nothing
\* is created, a document that is not live) has exactly one archive record,
\* whatever the interleaving of two callers and after a retry.
C30_OneRecordPerRemoval ==
    /\ [][ /\ Len(archive') >= Len(archive)
           /\ SubSeq(archive', 1, Len(archive)) = archive ]_vars
    /\ [](\A id \in TargetIds :
            ~HasLive(sheet, id)
            => Cardinality({k \in 1..Len(archive) : archive[k][1] = id}) = 1)

====
